---- MODULE Spec2Model ----
(***************************************************************************)
(* Model of the comment-association pipeline of dao-governance-surfaces:   *)
(* dgs/comments.py (CommentParser) as driven by dgs/models.py              *)
(* (parse_contract_file).                                                  *)
(*                                                                         *)
(* A Python str is a sequence of one-character strings; a Python list of   *)
(* str is a sequence of such sequences.  A Python dict is a sequence of    *)
(* entries in insertion order with unique keys.  A Python exception is the *)
(* field exc of the value an operator returns ("" when none is raised).    *)
(***************************************************************************)
EXTENDS Integers, Sequences, FiniteSets, TLC

-----------------------------------------------------------------------------
(* Python str / list primitives used by the code *)

Whitespace == {" ", "\t", "\n"}

Lower == {"a","b","c","d","e","f","g","h","i","j","k","l","m",
          "n","o","p","q","r","s","t","u","v","w","x","y","z"}

MinOf(S) == CHOOSE i \in S : \A j \in S : i <= j

MaxOf(S) == CHOOSE i \in S : \A j \in S : i >= j

RECURSIVE lstrip(_)
lstrip(s) == IF s # <<>> /\ Head(s) \in Whitespace THEN lstrip(Tail(s)) ELSE s

RECURSIVE rstrip(_)
rstrip(s) ==
    IF s # <<>> /\ s[Len(s)] \in Whitespace
    THEN rstrip(SubSeq(s, 1, Len(s) - 1))
    ELSE s

strip(s) == rstrip(lstrip(s))

OccursAt(s, p, i) == i + Len(p) - 1 <= Len(s) /\ SubSeq(s, i, i + Len(p) - 1) = p

startswith(s, p) == OccursAt(s, p, 1)

endswith(s, p) == Len(s) >= Len(p) /\ OccursAt(s, p, Len(s) - Len(p) + 1)

\* Python `p in s` for two str
contains(s, p) == \E i \in 1..(Len(s) + 1) : OccursAt(s, p, i)

RECURSIVE join(_, _)
join(sep, strs) ==
    IF strs = <<>> THEN <<>>
    ELSE IF Len(strs) = 1 THEN strs[1]
    ELSE strs[1] \o sep \o join(sep, Tail(strs))

\* s.split(sep): every piece, the empty ones included
RECURSIVE split(_, _)
split(s, sep) ==
    LET hits == {i \in 1..Len(s) : OccursAt(s, sep, i)}
    IN  IF hits = {} THEN <<s>>
        ELSE LET i == MinOf(hits)
             IN  <<SubSeq(s, 1, i - 1)>> \o split(SubSeq(s, i + Len(sep), Len(s)), sep)

\* s.split(sep, 1): one piece, or two when sep occurs
split_once(s, sep) ==
    LET hits == {i \in 1..Len(s) : OccursAt(s, sep, i)}
    IN  IF hits = {} THEN <<s>>
        ELSE LET i == MinOf(hits)
             IN  <<SubSeq(s, 1, i - 1), SubSeq(s, i + Len(sep), Len(s))>>

\* s.replace('\n', ' ')
replace_newlines(s) == [i \in 1..Len(s) |-> IF s[i] = "\n" THEN " " ELSE s[i]]

reversed(l) == [i \in 1..Len(l) |-> l[Len(l) + 1 - i]]

IsNonEmpty(s) == s # <<>>

StripsNonEmpty(s) == strip(s) # <<>>

\* [s.strip() for s in l if s.strip()]
strip_nonblank(l) ==
    LET kept == SelectSeq(l, StripsNonEmpty)
    IN  [i \in 1..Len(kept) |-> strip(kept[i])]

-----------------------------------------------------------------------------
(* dict as a sequence of entries [key, kind, str, dict], insertion-ordered. *)
(* kind = "str": the value is str; kind = "dict": the value is the         *)
(* sequence dict of [key, str] pairs (only 'param' ever holds one).        *)

StrEntry(k, v) == [key |-> k, kind |-> "str", str |-> v, dict |-> <<>>]

DictEntry(k, d) == [key |-> k, kind |-> "dict", str |-> <<>>, dict |-> d]

Pair(k, v) == [key |-> k, str |-> v]

has_key(d, k) == \E i \in 1..Len(d) : d[i].key = k

get_entry(d, k) == d[CHOOSE i \in 1..Len(d) : d[i].key = k]

\* d.get(k, '') for a str-valued key
get_str(d, k) == IF has_key(d, k) THEN get_entry(d, k).str ELSE <<>>

\* d[k] = e: in place when the key exists, appended otherwise
set_entry(d, e) ==
    IF has_key(d, e.key)
    THEN [i \in 1..Len(d) |-> IF d[i].key = e.key THEN e ELSE d[i]]
    ELSE Append(d, e)

keys(d) == [i \in 1..Len(d) |-> d[i].key]

-----------------------------------------------------------------------------
(* CommentParser: patterns *)

KEY_title == <<"t","i","t","l","e">>
KEY_notice == <<"n","o","t","i","c","e">>
KEY_dev == <<"d","e","v">>
KEY_return == <<"r","e","t","u","r","n">>
KEY_param == <<"p","a","r","a","m">>
KEY_full_comment == <<"f","u","l","l","_","c","o","m","m","e","n","t">>
KEY_description == <<"d","e","s","c","r","i","p","t","i","o","n">>
KEY_inline_comment == <<"i","n","l","i","n","e","_","c","o","m","m","e","n","t">>

NL == <<"\n">>

BLOCK_OPEN == <<"/","*","*">>

BLOCK_CLOSE == <<"*","/">>

LINE_COMMENT_MARKER == <<"/","/">>

\* rf'{{{LINE_COMMENT_MARKER}}}+' is the regular expression {//}+ : the four
\* literal characters { / / } with the last one repeated one or more times.
PATTERN_LINE_COMMENT == <<"{","/","/","}">>

RECURSIVE SkipClosingBraces(_)
SkipClosingBraces(s) ==
    IF s # <<>> /\ Head(s) = "}" THEN SkipClosingBraces(Tail(s)) ELSE s

\* what is left of s after one match of PATTERN_LINE_COMMENT at its start
AfterLineCommentMatch(s) ==
    SkipClosingBraces(SubSeq(s, Len(PATTERN_LINE_COMMENT) + 1, Len(s)))

\* re.sub(PATTERN_LINE_COMMENT, '', s)
RECURSIVE sub_line_comment(_)
sub_line_comment(s) ==
    IF s = <<>> THEN <<>>
    ELSE IF startswith(s, PATTERN_LINE_COMMENT)
         THEN sub_line_comment(AfterLineCommentMatch(s))
         ELSE <<Head(s)>> \o sub_line_comment(Tail(s))

\* re.split(PATTERN_LINE_COMMENT, s), cur being the piece under construction
RECURSIVE split_line_comment_from(_, _)
split_line_comment_from(s, cur) ==
    IF s = <<>> THEN <<cur>>
    ELSE IF startswith(s, PATTERN_LINE_COMMENT)
         THEN <<cur>> \o split_line_comment_from(AfterLineCommentMatch(s), <<>>)
         ELSE split_line_comment_from(Tail(s), Append(cur, Head(s)))

split_line_comment(s) == split_line_comment_from(s, <<>>)

\* re.search(r'/\*\*(.+?)\*/$', s, DOTALL): the leftmost "/**" that leaves at
\* least one character before a "*/" closing the buffer; group(1) is all the
\* text between them.  (The buffer is a join of stripped lines and never ends
\* with a newline, so $ is the end of the buffer.)
PATTERN_SEARCH_COMMENTBLOCK(s) ==
    LET starts == {p \in 1..Len(s) :
                      /\ OccursAt(s, BLOCK_OPEN, p)
                      /\ p + Len(BLOCK_OPEN) <= Len(s) - Len(BLOCK_CLOSE)}
    IN  IF endswith(s, BLOCK_CLOSE) /\ starts # {}
        THEN [found |-> TRUE,
              group1 |-> SubSeq(s, MinOf(starts) + Len(BLOCK_OPEN),
                                Len(s) - Len(BLOCK_CLOSE))]
        ELSE [found |-> FALSE, group1 |-> <<>>]

\* re.sub(r'^\s*\*\s*', '', s): leading whitespace, one asterisk, whitespace
PATTERN_SUB_ASTERISKS(s) ==
    LET t == lstrip(s)
    IN  IF t # <<>> /\ Head(t) = "*" THEN lstrip(Tail(t)) ELSE s

-----------------------------------------------------------------------------
(* CommentParser.clean_comment_block *)

\* a variant of scan_line_comments that takes every trailing line, with or
\* without the marker
RECURSIVE scan_all_lines(_, _)
scan_all_lines(lines, i) ==
    IF i >= 1
    THEN <<strip(sub_line_comment(lines[i]))>> \o scan_all_lines(lines, i - 1)
    ELSE <<>>

\* the while loop of the else branch: the trailing lines that start with the
\* marker, last one first
RECURSIVE scan_line_comments(_, _)
scan_line_comments(lines, i) ==
    IF i >= 1 /\ startswith(lines[i], LINE_COMMENT_MARKER)
    THEN <<strip(sub_line_comment(lines[i]))>> \o scan_line_comments(lines, i - 1)
    ELSE <<>>

\* lines 42-43: the interior of the block, split into lines
block_comment_lines(group1) ==
    LET parts == SelectSeq(split(group1, NL), IsNonEmpty)
    IN  [i \in 1..Len(parts) |-> strip(PATTERN_SUB_ASTERISKS(parts[i]))]

\* lines 40-56, match being the result of the search (line 39)
clean_matched_lines(lines, match) ==
    IF match.found
    THEN block_comment_lines(match.group1)
    ELSE reversed(scan_line_comments(lines, Len(lines)))

\* lines 36-56, lines being the stripped non-blank lines (line 35)
clean_stripped_lines(lines) ==
    clean_matched_lines(lines, PATTERN_SEARCH_COMMENTBLOCK(join(NL, lines)))

clean_comment_block(lines_in) == clean_stripped_lines(strip_nonblank(lines_in))

-----------------------------------------------------------------------------
(* CommentParser.clean_inline_comment: a one-element list when the split   *)
(* gives two pieces, the str '' otherwise                                   *)

clean_inline_comment(line) ==
    LET split_str == split_line_comment(line)
    IN  IF Len(split_str) = 2
        THEN [is_list |-> TRUE, items |-> <<split_str[Len(split_str)]>>]
        ELSE [is_list |-> FALSE, items |-> <<>>]

-----------------------------------------------------------------------------
(* CommentParser.clean_comment_lines *)

clean_comment_lines(lines_raw, includes_inline) ==
    IF includes_inline
    THEN IF lines_raw = <<>>
         THEN \* lines_raw[-1] of an empty list
              [exc |-> "IndexError", lines |-> <<>>]
         ELSE LET block_comment ==
                      clean_comment_block(SubSeq(lines_raw, 1, Len(lines_raw) - 1))
                  inline_comment == clean_inline_comment(lines_raw[Len(lines_raw)])
              IN  IF inline_comment.is_list
                  THEN \* s.strip() of the list that was appended to lines_new
                       [exc |-> "AttributeError", lines |-> <<>>]
                  ELSE [exc |-> "",
                        lines |-> strip_nonblank(Append(block_comment, <<>>))]
    ELSE [exc |-> "", lines |-> strip_nonblank(clean_comment_block(lines_raw))]

-----------------------------------------------------------------------------
(* CommentParser.parse_object_comments *)

\* number of lowercase letters of s from position i on
RECURSIVE LowerRun(_, _)
LowerRun(s, i) == IF i <= Len(s) /\ s[i] \in Lower THEN 1 + LowerRun(s, i + 1) ELSE 0

\* re.split(r'\n@([a-z]+)', s) from position i on, cur being the piece under
\* construction: pieces of text alternating with the captured tag names
RECURSIVE split_tags_from(_, _, _)
split_tags_from(s, i, cur) ==
    IF i > Len(s) THEN <<cur>>
    ELSE IF OccursAt(s, <<"\n", "@">>, i) /\ LowerRun(s, i + 2) > 0
         THEN LET n == LowerRun(s, i + 2)
              IN  <<cur, SubSeq(s, i + 2, i + 1 + n)>>
                      \o split_tags_from(s, i + 2 + n, <<>>)
         ELSE split_tags_from(s, i + 1, Append(cur, s[i]))

split_tags(s) == split_tags_from(s, 1, <<>>)

\* the loop over zip(split_lines[::2], split_lines[1::2]), from pair k on
RECURSIVE natspec_values(_, _, _)
natspec_values(split_lines, k, comment_data) ==
    IF 2 * k > Len(split_lines) THEN comment_data
    ELSE LET tag == split_lines[2 * k - 1]
             value == strip(replace_newlines(split_lines[2 * k]))
             prev_value == get_str(comment_data, tag)
             new_value == IF prev_value = <<>> THEN value
                          ELSE prev_value \o NL \o value
         IN  natspec_values(split_lines, k + 1,
                            set_entry(comment_data, StrEntry(tag, new_value)))

\* {p[0]: p[1] for p in paramLines}, from entry k on
RECURSIVE param_dict(_, _, _)
param_dict(paramLines, k, d) ==
    IF k > Len(paramLines) THEN d
    ELSE LET p == paramLines[k]
             at == {i \in 1..Len(d) : d[i].key = p[1]}
             d2 == IF at = {} THEN Append(d, Pair(p[1], p[2]))
                   ELSE [i \in 1..Len(d) |-> IF i \in at THEN Pair(p[1], p[2]) ELSE d[i]]
         IN  param_dict(paramLines, k + 1, d2)

\* a variant of choose_description that ignores the tags
choose_first_sentence(comment_data) ==
    split(get_entry(comment_data, KEY_full_comment).str, <<".">>)[1]

\* lines 149-160: the tag whose value becomes the description
choose_description(comment_data) ==
    IF has_key(comment_data, KEY_title) THEN get_entry(comment_data, KEY_title).str
    ELSE IF has_key(comment_data, KEY_notice) THEN get_entry(comment_data, KEY_notice).str
    ELSE IF has_key(comment_data, KEY_dev) THEN get_entry(comment_data, KEY_dev).str
    ELSE IF has_key(comment_data, KEY_return) THEN get_entry(comment_data, KEY_return).str
    ELSE split(get_entry(comment_data, KEY_full_comment).str, <<".">>)[1]

\* line 144: [s.split(' ', 1) for s in params.split('\\n')]
split_param_lines(params) ==
    LET parts == split(params, NL)
    IN  [i \in 1..Len(parts) |-> split_once(parts[i], <<" ">>)]

\* line 162
with_description(comment_data) ==
    set_entry(comment_data, StrEntry(KEY_description, choose_description(comment_data)))

\* lines 141-164, comment_data holding the tag values (lines 130-139) and
\* paramLines the split 'param' value (line 144)
parse_tagged_lines(lines, comment_data, paramLines) ==
    IF get_str(comment_data, KEY_param) # <<>>
       /\ \E i \in 1..Len(paramLines) : Len(paramLines[i]) < 2
    THEN \* p[1] of a one-element split
         [exc |-> "IndexError", data |-> <<>>]
    ELSE [exc |-> "",
          data |-> with_description(
                      set_entry(IF get_str(comment_data, KEY_param) # <<>>
                                THEN set_entry(comment_data,
                                               DictEntry(KEY_param,
                                                         param_dict(paramLines, 1, <<>>)))
                                ELSE comment_data,
                                StrEntry(KEY_full_comment, join(NL, lines))))]

\* lines 141-164, comment_data holding the tag values (lines 130-139)
parse_natspec_values(lines, comment_data) ==
    parse_tagged_lines(lines, comment_data,
                       split_param_lines(get_str(comment_data, KEY_param)))

\* a variant of parse_cleaned_lines without the early return of line 128
parse_lines_always(lines) ==
    parse_natspec_values(
        lines,
        natspec_values(Tail(split_tags(NL \o join(NL, lines))), 1, <<>>))

\* lines 127-164, lines being the cleaned lines (line 125)
parse_cleaned_lines(lines) ==
    IF Len(lines) = 0 THEN [exc |-> "", data |-> <<>>]
    ELSE parse_natspec_values(
             lines,
             natspec_values(Tail(split_tags(NL \o join(NL, lines))), 1, <<>>))

parse_object_comments(lines_raw) ==
    parse_cleaned_lines(clean_comment_lines(lines_raw, FALSE).lines)

-----------------------------------------------------------------------------
(* CommentParser.parse_parameter_comments *)

\* re.split(r'@[a-z]+', s)[-1]: the text after the last tag of s, or s
after_last_tag(s) ==
    LET tags == {p \in 1..Len(s) : s[p] = "@" /\ LowerRun(s, p + 1) > 0}
    IN  IF tags = {} THEN s
        ELSE LET p == MaxOf(tags)
             IN  SubSeq(s, p + 1 + LowerRun(s, p + 1), Len(s))

\* lines 192-210, lines being the cleaned lines, lines_noTags those lines
\* without their tags (line 189) and has_inline_comment the test of line 192
parameter_comment_data(lines, lines_noTags, has_inline_comment) ==
    [exc |-> "",
     data |-> << StrEntry(KEY_full_comment, join(NL, lines)),
                 StrEntry(KEY_description,
                          IF has_inline_comment /\ Len(lines) = 1 THEN lines[1]
                          ELSE IF has_inline_comment
                               THEN join(<<" ">>, SubSeq(lines_noTags, 1, Len(lines_noTags) - 1))
                               ELSE join(<<" ">>, lines_noTags)),
                 StrEntry(KEY_inline_comment,
                          IF has_inline_comment /\ Len(lines) = 1 THEN lines[1]
                          ELSE IF has_inline_comment THEN lines_noTags[Len(lines_noTags)]
                               ELSE <<>>) >>]

\* lines 185-210, cleaned being the result of clean_comment_lines (line 183)
parse_cleaned_parameter_lines(lines_raw, cleaned) ==
    IF cleaned.exc # "" THEN [exc |-> cleaned.exc, data |-> <<>>]
    ELSE IF Len(cleaned.lines) = 0 THEN [exc |-> "", data |-> <<>>]
    ELSE parameter_comment_data(
             cleaned.lines,
             [i \in 1..Len(cleaned.lines) |-> strip(after_last_tag(cleaned.lines[i]))],
             contains(lines_raw[Len(lines_raw)], cleaned.lines[Len(cleaned.lines)]))

parse_parameter_comments(lines_raw) ==
    parse_cleaned_parameter_lines(lines_raw, clean_comment_lines(lines_raw, TRUE))

-----------------------------------------------------------------------------
(* The two DataFrames.  A DataFrame is the sequence of its rows (the index *)
(* is 0..n-1, row k of the sequence is index k-1); a row is a record with  *)
(* one field per column.                                                   *)

KEY_object_name == <<"o","b","j","e","c","t","_","n","a","m","e">>
KEY_contract == <<"c","o","n","t","r","a","c","t">>
KEY_type == <<"t","y","p","e">>
KEY_inheritance == <<"i","n","h","e","r","i","t","a","n","c","e">>
KEY_modifiers == <<"m","o","d","i","f","i","e","r","s">>
KEY_values == <<"v","a","l","u","e","s">>
KEY_visibility == <<"v","i","s","i","b","i","l","i","t","y">>
KEY_line_numbers == <<"l","i","n","e","_","n","u","m","b","e","r","s">>
KEY_parameter_name == <<"p","a","r","a","m","e","t","e","r","_","n","a","m","e">>
KEY_type_category == <<"t","y","p","e","_","c","a","t","e","g","o","r","y">>
KEY_line_number == <<"l","i","n","e","_","n","u","m","b","e","r">>
KEY_initial_value == <<"i","n","i","t","i","a","l","_","v","a","l","u","e">>

ContractDefinition == <<"C","o","n","t","r","a","c","t","D","e","f","i","n","i","t","i","o","n">>
FunctionDefinition == <<"F","u","n","c","t","i","o","n","D","e","f","i","n","i","t","i","o","n">>

\* ContractObject.to_row of an object built by from_ast_node: the columns of
\* df_objects as extract_objects_and_parameters leaves them
ObjectRow(contract, object_type, object_name, line_numbers) ==
    [object_name |-> object_name,
     contract |-> contract,
     type |-> object_type,
     inheritance |-> <<>>,
     modifiers |-> <<>>,
     values |-> <<>>,
     visibility |-> <<>>,
     line_numbers |-> line_numbers,
     description |-> <<>>]

\* ContractParameter.to_row: object_name and contract are copied from the
\* parent object.  The field parent is not a column: it is the position in
\* df_objects of the ContractParameter's parent_object, which to_row drops;
\* no pass reads it.
ParameterRow(parameter_name, parent, parent_row, line_number) ==
    [parameter_name |-> parameter_name,
     object_name |-> parent_row.object_name,
     contract |-> parent_row.contract,
     type |-> <<"u","i","n","t">>,
     type_category |-> <<"u","i","n","t">>,
     line_number |-> line_number,
     initial_value |-> <<>>,
     visibility |-> <<>>,
     description |-> <<>>,
     parent |-> parent]

\* df_o.columns once add_docstring_comments has added the comment columns:
\* the key of a column and the field holding it
ObjectColumns ==
    << <<KEY_object_name, "object_name">>, <<KEY_contract, "contract">>,
       <<KEY_type, "type">>, <<KEY_inheritance, "inheritance">>,
       <<KEY_modifiers, "modifiers">>, <<KEY_values, "values">>,
       <<KEY_visibility, "visibility">>, <<KEY_line_numbers, "line_numbers">>,
       <<KEY_description, "description">>, <<KEY_title, "title">>,
       <<KEY_notice, "notice">>, <<KEY_dev, "dev">>, <<KEY_param, "param">>,
       <<KEY_return, "return">>, <<KEY_full_comment, "full_comment">> >>

\* df_p.columns once add_inline_comments has added full_comment
ParameterColumns ==
    << <<KEY_parameter_name, "parameter_name">>, <<KEY_object_name, "object_name">>,
       <<KEY_contract, "contract">>, <<KEY_type, "type">>,
       <<KEY_type_category, "type_category">>, <<KEY_line_number, "line_number">>,
       <<KEY_initial_value, "initial_value">>, <<KEY_visibility, "visibility">>,
       <<KEY_description, "description">>, <<KEY_full_comment, "full_comment">> >>

in_columns(columns, key) == \E c \in 1..Len(columns) : columns[c][1] = key

get_loc(columns, key) == columns[CHOOSE c \in 1..Len(columns) : columns[c][1] = key][2]

\* Python l[a:b] with the negative-index and clipping rules of slices
slice_index(n, x) == IF x < 0 THEN (IF x + n < 0 THEN 0 ELSE x + n)
                     ELSE (IF x > n THEN n ELSE x)

py_slice(l, a, b) == SubSeq(l, slice_index(Len(l), a) + 1, slice_index(Len(l), b))

-----------------------------------------------------------------------------
(* CommentParser.add_docstring_comments: one iteration of its loop *)

\* a variant of object_comment_start that always starts the window at the
\* first line of the previous object
object_comment_start_at_first_line(prev, line_numbers) == prev[1]

\* lines 229-233: where the window of the object with span line_numbers starts
object_comment_start(prev, line_numbers) ==
    LET comment_end == line_numbers[1] - 1
    IN  IF prev[2] <= comment_end THEN prev[2] ELSE prev[1]

\* a variant of object_comment_lines whose window runs to the object's first
\* line, that line included
object_comment_lines_to_object(src, prev, line_numbers) ==
    py_slice(src, object_comment_start(prev, line_numbers), line_numbers[1])

object_comment_lines(src, prev, line_numbers) ==
    py_slice(src, object_comment_start(prev, line_numbers), line_numbers[1] - 1)

\* lines 238-242: every key of comment_data that is a column is written, the
\* 'param' value as the list of its keys; from entry k on
RECURSIVE write_object_row(_, _, _)
write_object_row(row, comment_data, k) ==
    IF k > Len(comment_data) THEN row
    ELSE LET e == comment_data[k]
             value == IF e.key = KEY_param THEN keys(e.dict) ELSE e.str
         IN  IF in_columns(ObjectColumns, e.key)
             THEN write_object_row([row EXCEPT ![get_loc(ObjectColumns, e.key)] = value],
                                   comment_data, k + 1)
             ELSE write_object_row(row, comment_data, k + 1)

\* line 246-247: the rows of df_p selected for a param entry of the object row
param_rows(params_df, row, param_name) ==
    {j \in 1..Len(params_df) :
        /\ params_df[j].object_name = row.object_name
        /\ params_df[j].parameter_name = param_name}

\* lines 245-248: the descriptions written to df_p, from param entry k on
RECURSIVE write_param_descriptions(_, _, _, _)
write_param_descriptions(params_df, row, param, k) ==
    IF k > Len(param) THEN params_df
    ELSE LET index == MinOf(param_rows(params_df, row, param[k].key))
         IN  write_param_descriptions(
                 [params_df EXCEPT ![index].description = param[k].str],
                 row, param, k + 1)

\* the exception one iteration raises, "" when none
docstring_exception(params_df, row, comment_data) ==
    LET entry == IF has_key(comment_data.data, KEY_param)
                 THEN get_entry(comment_data.data, KEY_param)
                 ELSE DictEntry(KEY_param, <<>>)
    IN  IF comment_data.exc # "" THEN comment_data.exc
        ELSE IF entry.kind = "str"
             THEN \* value.keys() of the str an empty @param leaves
                  "AttributeError"
        ELSE IF entry.dict # <<>> /\ params_df = <<>>
             THEN \* df_p['object_name'] of a DataFrame without columns
                  "KeyError"
        ELSE IF \E k \in 1..Len(entry.dict) :
                    param_rows(params_df, row, entry.dict[k].key) = {}
             THEN \* .index[0] of an empty selection
                  "IndexError"
        ELSE ""

-----------------------------------------------------------------------------
(* CommentParser.remove_duplicate_comments_in_parameters: the lookup *)

AT_PARAM == <<"@","p","a","r","a","m">>

\* lines 289-290: the rows of df_o selected as the parent of a parameter row
parent_rows(objects_df, row) ==
    {j \in 1..Len(objects_df) :
        /\ objects_df[j].object_name = row.object_name
        /\ objects_df[j].contract = row.contract}

-----------------------------------------------------------------------------
(* State *)

VARIABLES
    lines,          \* parse_contract_file: the source lines of the file
    df_o,           \* the objects DataFrame
    df_p,           \* the parameters DataFrame
    pc,             \* the call parse_contract_file is in (models.py 334-340)
    idx,            \* the row the running loop handles next (1-based)
    prevObjectLoc,  \* add_docstring_comments
    comment_start,  \* add_inline_comments
    commentLines,   \* the window the last iteration handed to the parser
    exc,            \* the exception that call raised, which ends
                    \* parse_contract_file; "" while none is raised
    lines_raw,      \* the argument of a direct call of a CommentParser method
    called,         \* the method called directly, "" before the call
    returned,       \* what it returned: [exc, lines, data]
    sourceUnit,     \* extract_objects_and_parameters: the tree of the file
    item,           \* the member of the contract at idx it handles next
    parameters,     \* per ContractObject made, in the order of their making,
                    \* its parameters list: positions in df_p
    args,           \* the arguments of a direct call of a function of
                    \* models.py, utils.py, github.py or of parse_repo
    fs,             \* the file system and the network those functions see
    repoMetadata,   \* download_repo
    repoDir,        \* download_repo
    fileCount,      \* parse_repo
    errorFiles,     \* parse_repo
    df_objects,     \* parse_repo: the records collected from the files
    df_parameters   \* parse_repo

vars == <<lines, df_o, df_p, pc, idx, prevObjectLoc, comment_start,
          commentLines, exc, lines_raw, called, returned,
          sourceUnit, item, parameters,
          args, fs, repoMetadata, repoDir, fileCount, errorFiles,
          df_objects, df_parameters>>

extract_vars == <<sourceUnit, item, parameters>>

pipeline_vars == <<lines, df_o, df_p, pc, idx, prevObjectLoc, comment_start,
                   commentLines, exc>>

call_vars == <<lines_raw, called, returned>>

driver_vars == <<args, fs, repoMetadata, repoDir, fileCount, errorFiles,
                 df_objects, df_parameters>>

\* the variables of the batch driver while no function of it is running
NoDriver ==
    /\ args = <<>>
    /\ fs = <<>>
    /\ repoMetadata = <<>>
    /\ repoDir = <<>>
    /\ fileCount = 0
    /\ errorFiles = <<>>
    /\ df_objects = <<>>
    /\ df_parameters = <<>>

-----------------------------------------------------------------------------
(* Source files and the tables extract_objects_and_parameters makes of them *)

\* number of lines of a source file
NumLines == 4

SRC_code == <<"x",";">>
SRC_param_a == <<"/","*","*"," ","@","p","a","r","a","m"," ","a"," ","v"," ","*","/">>
SRC_line == <<"/","/"," ","c",".","d">>
SRC_note == <<"/","/"," ","n">>

\* the lines a file is made of.  readlines (models.py 321) leaves the newline
\* at the end of each line; every reader strips it (comments.py 35 and 99),
\* so a line is written here without it.
SourceLines == {SRC_code, SRC_param_a, SRC_line, SRC_note}

ContractNames == << <<"C">>, <<"D">>, <<"E">> >>

FunctionNames == { <<"f">>, <<"g">> }

ParameterNames == { <<"a">>, <<"b">> }

Spans == {s \in (1..NumLines) \X (1..NumLines) : s[1] <= s[2]}

\* one contract with two functions of one parameter each, declared on the
\* function's first line: rows in source order
ContractWithFunctions ==
    {<< << ObjectRow(ContractNames[1], ContractDefinition, ContractNames[1], c),
           ObjectRow(ContractNames[1], FunctionDefinition, <<"f">>, f1),
           ObjectRow(ContractNames[1], FunctionDefinition, n2, f2) >>,
        << ParameterRow(p1, 2, ObjectRow(ContractNames[1], FunctionDefinition, <<"f">>, f1), f1[1]),
           ParameterRow(p2, 3, ObjectRow(ContractNames[1], FunctionDefinition, n2, f2), f2[1]) >> >> :
        <<c, f1, f2, n2, p1, p2>> \in
            {t \in Spans \X Spans \X Spans \X FunctionNames \X ParameterNames \X ParameterNames :
                /\ t[1][1] <= t[2][1]
                /\ t[2][2] < t[3][1]
                /\ t[3][2] <= t[1][2]}}

\* three contracts without members, one after the other
ContractsOnly ==
    {<< << ObjectRow(ContractNames[1], ContractDefinition, ContractNames[1], c1),
           ObjectRow(ContractNames[2], ContractDefinition, ContractNames[2], c2),
           ObjectRow(ContractNames[3], ContractDefinition, ContractNames[3], c3) >>,
        << >> >> :
        <<c1, c2, c3>> \in
            {t \in Spans \X Spans \X Spans : t[1][2] < t[2][1] /\ t[2][2] < t[3][1]}}

Tables == ContractWithFunctions \cup ContractsOnly

\* the first line of a declaration is code
DeclarationLines(t) ==
    {t[1][k].line_numbers[1] : k \in 1..Len(t[1])}
        \cup {t[2][k].line_number : k \in 1..Len(t[2])}

\* a declaration with a trailing remark
SRC_inline == <<"x",";"," ","/","/"," ","r">>

ParameterLines(t) == {t[2][k].line_number : k \in 1..Len(t[2])}

\* the files the tables t can come from: the line of a parameter is code,
\* with or without a trailing remark, every other declaration line is code
SourceFiles(t) ==
    {src \in [1..NumLines -> SourceLines \cup {SRC_inline}] :
        \A n \in 1..NumLines :
            /\ n \in ParameterLines(t) => src[n] \in {SRC_code, SRC_inline}
            /\ n \in DeclarationLines(t) \ ParameterLines(t) => src[n] = SRC_code
            /\ n \notin DeclarationLines(t) => src[n] \in SourceLines}

NoReturn == [exc |-> "", lines |-> <<>>, data |-> <<>>]

Init ==
    /\ \E t \in Tables :
          /\ df_o = t[1]
          /\ df_p = t[2]
          /\ lines \in SourceFiles(t)
    /\ pc = "extract_objects_and_parameters"
    /\ exc = ""
    /\ idx = 0
    /\ prevObjectLoc = <<0, 0>>
    /\ comment_start = 0
    /\ commentLines = <<>>
    /\ lines_raw = <<>>
    /\ called = ""
    /\ returned = NoReturn
    /\ sourceUnit = <<>>
    /\ item = 0
    /\ parameters = <<>>
    /\ NoDriver

-----------------------------------------------------------------------------
(* parse_contract_file, lines 336-340 *)

CommentColumns ==
    [title |-> <<>>, notice |-> <<>>, dev |-> <<>>, param |-> <<>>,
     return |-> <<>>, description |-> <<>>, full_comment |-> <<>>]

\* add_docstring_comments is called: lines 216-226
AddDocstringCommentsBegin ==
    /\ pc = "extract_objects_and_parameters"
    /\ exc = ""
    /\ df_o' = [k \in 1..Len(df_o) |-> CommentColumns @@ df_o[k]]
    /\ prevObjectLoc' = <<0, 0>>
    /\ idx' = 1
    /\ pc' = "add_docstring_comments"
    /\ UNCHANGED <<lines, df_p, comment_start, commentLines, exc, call_vars, driver_vars, extract_vars>>

\* comment_data.get('param', {}) of line 245
param_entries(comment_data) ==
    IF has_key(comment_data.data, KEY_param)
    THEN get_entry(comment_data.data, KEY_param).dict
    ELSE <<>>

\* lines 237-250 for the row at idx, window being commentLines (line 234) and
\* comment_data what parse_object_comments returned for it (line 235).  An
\* exception leaves add_docstring_comments and parse_contract_file, neither
\* of which catches it: no later row is handled and no table is returned.
AddDocstringCommentsRow(row, window, comment_data, raised) ==
    /\ commentLines' = window
    /\ IF raised # ""
       THEN /\ exc' = raised
            /\ UNCHANGED <<df_o, df_p, idx, prevObjectLoc, pc>>
       ELSE /\ df_o' = [df_o EXCEPT ![idx] = write_object_row(row, comment_data.data, 1)]
            /\ df_p' = write_param_descriptions(df_p, row, param_entries(comment_data), 1)
            /\ prevObjectLoc' = row.line_numbers
            /\ idx' = idx + 1
            /\ UNCHANGED <<pc, exc>>

AddDocstringCommentsParsed(row, window, comment_data) ==
    AddDocstringCommentsRow(row, window, comment_data,
                            docstring_exception(df_p, row, comment_data))

AddDocstringCommentsWindow(row, window) ==
    AddDocstringCommentsParsed(row, window, parse_object_comments(window))

\* one iteration of the loop of add_docstring_comments: lines 227-250
AddDocstringCommentsStep ==
    /\ pc = "add_docstring_comments"
    /\ exc = ""
    /\ idx <= Len(df_o)
    /\ AddDocstringCommentsWindow(
           df_o[idx], object_comment_lines(lines, prevObjectLoc, df_o[idx].line_numbers))
    /\ UNCHANGED <<lines, comment_start, call_vars, driver_vars, extract_vars>>

\* add_docstring_comments returns (line 252) and add_inline_comments is
\* called: lines 258-261
AddInlineCommentsBegin ==
    /\ pc = "add_docstring_comments"
    /\ exc = ""
    /\ idx > Len(df_o)
    /\ df_p' = [k \in 1..Len(df_p) |-> [full_comment |-> <<>>] @@ df_p[k]]
    /\ comment_start' = 0
    /\ idx' = 1
    /\ pc' = "add_inline_comments"
    /\ UNCHANGED <<lines, df_o, prevObjectLoc, commentLines, exc, call_vars, driver_vars, extract_vars>>

\* lines 264-265: the window of the parameter on line comment_end
parameter_comment_lines(src, start, comment_end) ==
    py_slice(src, IF start <= comment_end - 2 THEN start ELSE comment_end - 2, comment_end)

\* a variant of write_if_empty that writes the cell whatever it holds
write_always(row, e) ==
    IF in_columns(ParameterColumns, e.key)
    THEN [row EXCEPT ![get_loc(ParameterColumns, e.key)] = e.str]
    ELSE row

\* lines 270-273: a key that is a column is written when its cell is empty
write_if_empty(row, e) ==
    IF in_columns(ParameterColumns, e.key)
       /\ row[get_loc(ParameterColumns, e.key)] = <<>>
    THEN [row EXCEPT ![get_loc(ParameterColumns, e.key)] = e.str]
    ELSE row

\* line 269: the loop over comment_data.items(), from entry k on
RECURSIVE write_parameter_row(_, _, _)
write_parameter_row(row, comment_data, k) ==
    IF k > Len(comment_data) THEN row
    ELSE write_parameter_row(write_if_empty(row, comment_data[k]), comment_data, k + 1)

\* lines 268-275 for the row at idx, window being commentLines (line 265) and
\* comment_data what parse_parameter_comments returned for it (line 266)
AddInlineCommentsRow(row, window, comment_data) ==
    /\ commentLines' = window
    /\ IF comment_data.exc # ""
       THEN /\ exc' = comment_data.exc
            /\ UNCHANGED <<df_p, idx, comment_start, pc>>
       ELSE /\ df_p' = [df_p EXCEPT ![idx] = write_parameter_row(row, comment_data.data, 1)]
            /\ comment_start' = row.line_number
            /\ idx' = idx + 1
            /\ UNCHANGED <<pc, exc>>

AddInlineCommentsWindow(row, window) ==
    AddInlineCommentsRow(row, window, parse_parameter_comments(window))

\* one iteration of the loop of add_inline_comments: lines 262-275
AddInlineCommentsStep ==
    /\ pc = "add_inline_comments"
    /\ exc = ""
    /\ idx <= Len(df_p)
    /\ AddInlineCommentsWindow(
           df_p[idx], parameter_comment_lines(lines, comment_start, df_p[idx].line_number))
    /\ UNCHANGED <<lines, df_o, prevObjectLoc, call_vars, driver_vars, extract_vars>>

\* add_inline_comments returns (line 277) and
\* remove_duplicate_comments_in_parameters is called: line 285
RemoveDuplicateCommentsBegin ==
    /\ pc = "add_inline_comments"
    /\ exc = ""
    /\ idx > Len(df_p)
    /\ idx' = 1
    /\ pc' = "remove_duplicate_comments_in_parameters"
    /\ UNCHANGED <<lines, df_o, df_p, prevObjectLoc, comment_start, commentLines,
                   exc, call_vars, driver_vars, extract_vars>>

\* lines 295-298.  The loop reads row from the argument df_parameters and
\* writes the copy df_p; iteration i writes row i only, so row i of the copy
\* still equals row i of the argument when iteration i reads it.
remove_duplicate(row, object_fullComment, object_description) ==
    LET row1 == IF row.full_comment = object_fullComment
                   \/ contains(object_fullComment, AT_PARAM)
                THEN [row EXCEPT !.full_comment = <<>>]
                ELSE row
    IN  IF row.description = object_description
        THEN [row1 EXCEPT !.description = <<>>]
        ELSE row1

\* one iteration of the loop of remove_duplicate_comments_in_parameters:
\* lines 287-298
RemoveDuplicateCommentsStep ==
    /\ pc = "remove_duplicate_comments_in_parameters"
    /\ exc = ""
    /\ idx <= Len(df_p)
    /\ LET row == df_p[idx]
           found == parent_rows(df_o, row)
       IN  IF found = {}
           THEN \* .index[0] of an empty selection
                /\ exc' = "IndexError"
                /\ UNCHANGED <<df_p, idx, pc>>
           ELSE LET index == MinOf(found)
                IN  /\ df_p' = [df_p EXCEPT ![idx] =
                                   remove_duplicate(row, df_o[index].full_comment,
                                                    df_o[index].description)]
                    /\ idx' = idx + 1
                    /\ UNCHANGED <<pc, exc>>
    /\ UNCHANGED <<lines, df_o, prevObjectLoc, comment_start, commentLines, call_vars, driver_vars, extract_vars>>

\* remove_duplicate_comments_in_parameters returns: line 300
RemoveDuplicateCommentsReturn ==
    /\ pc = "remove_duplicate_comments_in_parameters"
    /\ exc = ""
    /\ idx > Len(df_p)
    /\ pc' = "done"
    /\ UNCHANGED <<lines, df_o, df_p, idx, prevObjectLoc, comment_start,
                   commentLines, exc, call_vars, driver_vars, extract_vars>>

Next ==
    \/ AddDocstringCommentsBegin
    \/ AddDocstringCommentsStep
    \/ AddInlineCommentsBegin
    \/ AddInlineCommentsStep
    \/ RemoveDuplicateCommentsBegin
    \/ RemoveDuplicateCommentsStep
    \/ RemoveDuplicateCommentsReturn

Spec == Init /\ [][Next]_vars

-----------------------------------------------------------------------------
(* Direct calls of the CommentParser methods, as the tests make them        *)
(* (tests/test_comments.py): one call on a list of lines.                   *)

\* longest list of sample lines handed to a method
MaxLines == 3

\* most tags of a rendered NatSpec comment
MaxTags == 2

L_blank == <<>>
L_code == <<"x",";">>
L_line_a == <<"/","/"," ","a">>
L_line_b == <<"/","/"," ","b">>
L_block_a == <<"/","*","*"," ","a"," ","*","/">>
L_block_b == <<"/","*","*"," ","b"," ","*","/">>
L_open == <<"/","*","*">>
L_close == <<" ","*","/">>
L_notice == <<" ","*"," ","@","n","o","t","i","c","e"," ","A">>
L_param_b == <<" ","*"," ","@","p","a","r","a","m"," ","b">>
L_inline == <<"x",";"," ","/","/"," ","r">>
L_braces == <<"x",";"," ","{","/","/","}"," ","r">>

SampleLines ==
    {L_blank, L_code, L_line_a, L_line_b, L_block_a, L_block_b, L_open, L_close,
     L_notice, L_param_b, L_inline, L_braces}

RECURSIVE SeqsUpTo(_, _)
SeqsUpTo(S, n) ==
    IF n = 0 THEN {<<>>}
    ELSE LET shorter == SeqsUpTo(S, n - 1)
         IN  shorter \cup {Append(q, x) : q \in {r \in shorter : Len(r) = n - 1}, x \in S}

\* a NatSpec comment as its author means it: tagged entries, in order
DocEntries ==
    { [tag |-> KEY_title, text |-> <<"T">>],
      [tag |-> KEY_notice, text |-> <<"A">>],
      [tag |-> KEY_dev, text |-> <<"B">>],
      [tag |-> KEY_return, text |-> <<"R">>],
      [tag |-> KEY_param, text |-> <<"a"," ","v">>] }

Docs == SeqsUpTo(DocEntries, MaxTags) \ {<<>>}

TagText(e) == <<"@">> \o e.tag \o <<" ">> \o e.text

\* the comment written as a block comment, one entry per line
BlockComment(d) ==
    <<L_open>> \o [k \in 1..Len(d) |-> <<" ","*"," ">> \o TagText(d[k])] \o <<L_close>>

\* the comment written as a run of line comments, one entry per line
LineComment(d) == [k \in 1..Len(d) |-> <<"/","/"," ">> \o TagText(d[k])]

\* the scenarios of the documentation
S1_notice == <<" ","*"," ","@","n","o","t","i","c","e"," ","d","o","e","s"," ","X">>
S1_param == <<" ","*"," ","@","p","a","r","a","m"," ","a"," ","v","a","l","u","e">>
Scenario1 == <<L_open, S1_notice, S1_param, L_close>>

S2_helper == <<"/","/"," ","h","e","l","p","e","r">>
S2_decl == <<"u","i","n","t"," ","x"," ","="," ","1",";"," ","/","/"," ","t","h","e"," ","x"," ","v","a","l","u","e">>
Scenario2 == <<L_blank, S2_helper, S2_decl>>

\* the whitespace between the name and the text of a @param entry
Gaps == { <<" ">>, <<" "," ">> }

\* a block comment with the entries "@param x p" and "@param y q"
ParamComment(gap_x, gap_y) ==
    << L_open,
       <<" ","*"," ","@","p","a","r","a","m"," ","x">> \o gap_x \o <<"p">>,
       <<" ","*"," ","@","p","a","r","a","m"," ","y">> \o gap_y \o <<"q">>,
       L_close >>

\* content lines of a comment
ContentLines == { <<"a">>, <<"b">> }

Contents == SeqsUpTo(ContentLines, MaxTags) \ {<<>>}

\* the content written as a block comment, one content line per line
ContentBlock(c) ==
    <<L_open>> \o [k \in 1..Len(c) |-> <<" ","*"," ">> \o c[k]] \o <<L_close>>

\* the content written as a run of line comments
ContentLineComments(c) == [k \in 1..Len(c) |-> <<"/","/"," ">> \o c[k]]

\* declaration lines without a comment
L_decl_a == <<"a",";">>
L_decl_b == <<"u","i","n","t"," ","b",";">>

Declarations == {L_code, L_decl_a, L_decl_b}

\* a block comment followed by the declaration it documents
DocumentedDeclarations ==
    {ContentBlock(c) \o <<decl>> : c \in Contents, decl \in Declarations}

CallInputs ==
    SeqsUpTo(SampleLines, MaxLines)
        \cup {BlockComment(d) : d \in Docs}
        \cup {LineComment(d) : d \in Docs}
        \cup {Scenario1, Scenario2}
        \cup {ParamComment(gap_x, gap_y) : gap_x \in Gaps, gap_y \in Gaps}
        \cup {ContentBlock(c) : c \in Contents}
        \cup {ContentLineComments(c) : c \in Contents}
        \cup DocumentedDeclarations

InitCall ==
    /\ lines_raw \in CallInputs
    /\ called = ""
    /\ returned = NoReturn
    /\ lines = <<>>
    /\ df_o = <<>>
    /\ df_p = <<>>
    /\ pc = "call"
    /\ idx = 0
    /\ prevObjectLoc = <<0, 0>>
    /\ comment_start = 0
    /\ commentLines = <<>>
    /\ exc = ""
    /\ sourceUnit = <<>>
    /\ item = 0
    /\ parameters = <<>>
    /\ NoDriver

CallCleanCommentBlock ==
    /\ called = ""
    /\ called' = "clean_comment_block"
    /\ returned' = [exc |-> "", lines |-> clean_comment_block(lines_raw), data |-> <<>>]
    /\ UNCHANGED <<lines_raw, pipeline_vars, extract_vars, driver_vars>>

Returned(r) == [exc |-> r.exc, lines |-> <<>>, data |-> r.data]

CallParseObjectComments ==
    /\ called = ""
    /\ called' = "parse_object_comments"
    /\ returned' = Returned(parse_object_comments(lines_raw))
    /\ UNCHANGED <<lines_raw, pipeline_vars, extract_vars, driver_vars>>

CallParseParameterComments ==
    /\ called = ""
    /\ called' = "parse_parameter_comments"
    /\ returned' = Returned(parse_parameter_comments(lines_raw))
    /\ UNCHANGED <<lines_raw, pipeline_vars, extract_vars, driver_vars>>

NextCall ==
    \/ CallCleanCommentBlock
    \/ CallParseObjectComments
    \/ CallParseParameterComments

SpecCall == InitCall /\ [][NextCall]_vars

-----------------------------------------------------------------------------
(* Properties of the direct calls (SpecCall) *)

\* a dict as the set of its items: dict equality does not look at the order
Items(d) == {d[i] : i \in 1..Len(d)}

TEXT_does_X == <<"d","o","e","s"," ","X">>
TEXT_value == <<"v","a","l","u","e">>
TEXT_full_without_tags == <<"d","o","e","s"," ","X">> \o NL \o <<"@","p","a","r","a","m"," ","a"," ","v","a","l","u","e">>
TEXT_full_with_tags == <<"@","n","o","t","i","c","e"," ","d","o","e","s"," ","X">> \o NL \o <<"@","p","a","r","a","m"," ","a"," ","v","a","l","u","e">>

Scenario1Result(full_comment) ==
    { StrEntry(KEY_notice, TEXT_does_X),
      DictEntry(KEY_param, << Pair(<<"a">>, TEXT_value) >>),
      StrEntry(KEY_full_comment, full_comment),
      StrEntry(KEY_description, TEXT_does_X) }

\* C1, as the documentation states it: parse_object_comments on the lines
\* "/**", " * @notice does X", " * @param a value", " */" returns notice
\* "does X", param {a: "value"}, description "does X" and the full_comment
\* "does X\n@param a value"
C1_FullCommentWithoutTags ==
    (called = "parse_object_comments" /\ lines_raw = Scenario1)
        => /\ returned.exc = ""
           /\ Items(returned.data) = Scenario1Result(TEXT_full_without_tags)

\* C1, amended: on those lines parse_object_comments returns notice "does X",
\* param {a: "value"}, description "does X" and the full_comment
\* "@notice does X\n@param a value", the cleaned lines with their tags
C1_FullCommentKeepsTags ==
    (called = "parse_object_comments" /\ lines_raw = Scenario1)
        => /\ returned.exc = ""
           /\ Items(returned.data) = Scenario1Result(TEXT_full_with_tags)

C1_Witness ==
    /\ called = "parse_object_comments"
    /\ lines_raw = Scenario1
    /\ has_key(returned.data, KEY_full_comment)

TEXT_helper == <<"h","e","l","p","e","r">>
TEXT_the_x_value == <<"t","h","e"," ","x"," ","v","a","l","u","e">>

ParameterResult(description, inline_comment) ==
    { StrEntry(KEY_full_comment, description \o NL \o inline_comment),
      StrEntry(KEY_description, description),
      StrEntry(KEY_inline_comment, inline_comment) }

\* C2: parse_parameter_comments on line comments followed by a declaration
\* with a trailing remark returns the marker-free text of the line comments
\* as description, the text after the declaration's marker as inline_comment
\* and both, joined by a newline, as full_comment; for "", "// helper",
\* "uint x = 1; // the x value" these are "helper", "the x value" and
\* "helper\nthe x value"
C2_TrailingCommentParsed ==
    called = "parse_parameter_comments"
        => /\ lines_raw = Scenario2
                => /\ returned.exc = ""
                   /\ Items(returned.data) = ParameterResult(TEXT_helper, TEXT_the_x_value)
           /\ lines_raw = <<L_line_a, L_inline>>
                => /\ returned.exc = ""
                   /\ Items(returned.data) = ParameterResult(<<"a">>, <<"r">>)

\* no text of the earlier comment ("a") or of the code ("x;") is in the
\* result, and the text of the final comment ("b") is
HoldsFinalCommentOnly(result) ==
    /\ \E i \in 1..Len(result) : contains(result[i], <<"b">>)
    /\ \A i \in 1..Len(result) :
          /\ ~contains(result[i], <<"a">>)
          /\ ~contains(result[i], L_code)

\* C3: clean_comment_block on an earlier comment, a line of code and a final
\* comment, the final comment a block or a run of line comments, returns the
\* text of the final comment only, nothing of the earlier comment or the code
C3_OnlyTrailingComment ==
    called = "clean_comment_block"
        => \A earlier \in {L_block_a, L_line_a}, final \in {L_block_b, L_line_b} :
              lines_raw = <<earlier, L_code, final>>
                  => HoldsFinalCommentOnly(returned.lines)

\* C4: the cleaning and interpretation operations return a value for every
\* finite list of lines, the empty list included; none raises
C4_NeverRaises ==
    called \in {"clean_comment_block", "parse_object_comments", "parse_parameter_comments"}
        => returned.exc = ""

\* a comment whose tags are all different
DistinctTags(d) == \A i, j \in 1..Len(d) : d[i].tag = d[j].tag => i = j

HasTag(d, tag) == \E k \in 1..Len(d) : d[k].tag = tag

TextOf(d, tag) == d[CHOOSE k \in 1..Len(d) : d[k].tag = tag].text

\* the description the priority rule gives the comment d whose full_comment
\* is full_comment
PriorityDescription(d, full_comment) ==
    IF HasTag(d, KEY_title) THEN TextOf(d, KEY_title)
    ELSE IF HasTag(d, KEY_notice) THEN TextOf(d, KEY_notice)
    ELSE IF HasTag(d, KEY_dev) THEN TextOf(d, KEY_dev)
    ELSE IF HasTag(d, KEY_return) THEN TextOf(d, KEY_return)
    ELSE split(full_comment, <<".">>)[1]

\* C10: for every non-empty comment, block or line comments, the description
\* parse_object_comments returns is the value of the first tag present among
\* title, notice, dev, return, in that order, and with none of them the text
\* of full_comment before its first period
C10_DescriptionByPriority ==
    called = "parse_object_comments"
        => \A d \in {e \in Docs : DistinctTags(e)} :
              lines_raw \in {BlockComment(d), LineComment(d)}
                  => /\ returned.exc = ""
                     /\ has_key(returned.data, KEY_description)
                     /\ get_str(returned.data, KEY_description)
                            = PriorityDescription(d, get_str(returned.data, KEY_full_comment))

-----------------------------------------------------------------------------
(* Properties of parse_contract_file (Spec) *)

\* the comment of the object at idx, commentLines being its window, has an
\* @param entry naming a parameter without a row in df_p
ParamWithoutRow ==
    /\ idx \in 1..Len(df_o)
    /\ parse_object_comments(commentLines).exc = ""
    /\ \E k \in 1..Len(param_entries(parse_object_comments(commentLines))) :
          param_rows(df_p, df_o[idx],
                     param_entries(parse_object_comments(commentLines))[k].key) = {}

\* C5: an @param entry naming a parameter without a row in the parameters
\* table does not abort the file: add_docstring_comments goes on to the later
\* objects and returns both tables, so it never ends in an exception raised
\* for such an entry
C5_MismatchDoesNotAbort ==
    ~(pc = "add_docstring_comments" /\ exc # "" /\ ParamWithoutRow)

\* C6: every parameter row add_docstring_comments writes while it handles
\* the object at idx is a child of that object, never a row of another
\* object with the same object name and parameter name
C6_WrittenToOwnChild ==
    [][(pc = "add_docstring_comments" /\ pc' = "add_docstring_comments")
          => \A j \in 1..Len(df_p) : df_p'[j] # df_p[j] => df_p[j].parent = idx]_vars

\* C7: add_inline_comments writes a field of a parameter only when that field
\* is empty, so a description add_docstring_comments set is the description
\* after add_inline_comments, whatever the parameter's window holds
C7_DescriptionNotOverwritten ==
    [][/\ (pc = "add_docstring_comments" /\ pc' = "add_inline_comments")
            => \A j \in 1..Len(df_p) : df_p'[j].description = df_p[j].description
       /\ (pc = "add_inline_comments" /\ pc' = "add_inline_comments")
            => \A j \in 1..Len(df_p) :
                  /\ df_p[j].description # <<>>
                        => df_p'[j].description = df_p[j].description
                  /\ df_p[j].full_comment # <<>>
                        => df_p'[j].full_comment = df_p[j].full_comment]_vars

\* add_inline_comments has just handled a parameter whose description the
\* object pass had set, and found another description in its window
C7_Witness ==
    /\ pc = "add_inline_comments"
    /\ exc = ""
    /\ idx \in 2..(Len(df_p) + 1)
    /\ df_p[idx - 1].description # <<>>
    /\ parse_parameter_comments(commentLines).exc = ""
    /\ get_str(parse_parameter_comments(commentLines).data, KEY_description)
          \notin {<<>>, df_p[idx - 1].description}

\* the span b starts on the line after the span a ends
StartsAfter(a, b) == a[1] <= a[2] /\ b[1] = a[2] + 1 /\ b[1] <= b[2]

\* the objects at i, i + 1 and i + 2 have strictly increasing, adjacent spans
ThreeAdjacent(i) ==
    /\ StartsAfter(df_o[i].line_numbers, df_o[i + 1].line_numbers)
    /\ StartsAfter(df_o[i + 1].line_numbers, df_o[i + 2].line_numbers)

HasNoCommentFields(row) ==
    /\ row.title = <<>>
    /\ row.notice = <<>>
    /\ row.dev = <<>>
    /\ row.param = <<>>
    /\ row.return = <<>>
    /\ row.description = <<>>
    /\ row.full_comment = <<>>

\* C8: when add_docstring_comments has handled the third of three objects
\* whose spans are strictly increasing and adjacent, the window it computed
\* for that object is empty and the object has no comment field
C8_ThirdWindowEmpty ==
    (/\ pc = "add_docstring_comments"
     /\ exc = ""
     /\ idx \in 4..(Len(df_o) + 1)
     /\ ThreeAdjacent(idx - 3))
        => /\ commentLines = <<>>
           /\ HasNoCommentFields(df_o[idx - 1])

\* the third of three adjacent objects has been handled, and the line above
\* it, the last line of the second object, is a comment
C8_Witness ==
    /\ pc = "add_docstring_comments"
    /\ exc = ""
    /\ idx = 4
    /\ ThreeAdjacent(1)
    /\ df_o[2].line_numbers[1] < df_o[2].line_numbers[2]
    /\ lines[df_o[2].line_numbers[2]] # SRC_code

\* C9: remove_duplicate_comments_in_parameters empties the full_comment of a
\* parameter when it equals the full_comment of the parameter's parent
\* object, and empties the description exactly when it equals the parent's
\* description, leaving it unchanged otherwise
C9_ClearedIndependently ==
    [][(/\ pc = "remove_duplicate_comments_in_parameters"
        /\ pc' = "remove_duplicate_comments_in_parameters"
        /\ idx' = idx + 1)
          => /\ df_p[idx].full_comment = df_o[df_p[idx].parent].full_comment
                   => df_p'[idx].full_comment = <<>>
             /\ df_p[idx].description = df_o[df_p[idx].parent].description
                   => df_p'[idx].description = <<>>
             /\ df_p[idx].description # df_o[df_p[idx].parent].description
                   => df_p'[idx].description = df_p[idx].description]_vars

-----------------------------------------------------------------------------
(* Further properties of the direct calls (SpecCall) *)

\* C11: a comment with the entries "@param x <text>" and "@param y <text>"
\* gives a param mapping with exactly the keys x and y, each value the text
\* of its entry without surrounding whitespace, whatever the whitespace
\* between the name and the text
C11_ParamRoundTrip ==
    called = "parse_object_comments"
        => \A gap_x \in Gaps, gap_y \in Gaps :
              lines_raw = ParamComment(gap_x, gap_y)
                  => /\ returned.exc = ""
                     /\ has_key(returned.data, KEY_param)
                     /\ Items(get_entry(returned.data, KEY_param).dict)
                            = {Pair(<<"x">>, <<"p">>), Pair(<<"y">>, <<"q">>)}

\* no line carries a block or line comment marker
MarkerFree(l) ==
    \A i \in 1..Len(l) :
        /\ ~contains(l[i], <<"/","/">>)
        /\ ~contains(l[i], <<"/","*">>)
        /\ ~contains(l[i], <<"*","/">>)

\* cleaned lines: marker-free and not blank
AlreadyCleaned(l) == MarkerFree(l) /\ \A i \in 1..Len(l) : strip(l[i]) # <<>>

\* C12, as the documentation states it: clean_comment_block returns a list
\* of already-cleaned lines unchanged, and cleaning its own result again
\* returns that result
C12_CleaningIdempotent ==
    called = "clean_comment_block"
        => /\ AlreadyCleaned(lines_raw) => returned.lines = lines_raw
           /\ clean_comment_block(returned.lines) = returned.lines

\* C12, amended: clean_comment_block returns the empty list for every list
\* of lines without comment markers, so cleaning the marker-free result of a
\* cleaning again gives the empty list
C12_CleanedLinesCleanToNothing ==
    called = "clean_comment_block"
        => /\ MarkerFree(lines_raw) => returned.lines = <<>>
           /\ MarkerFree(returned.lines) => clean_comment_block(returned.lines) = <<>>

\* a cleaning has returned comment text without markers
C12_Witness ==
    /\ called = "clean_comment_block"
    /\ returned.lines # <<>>
    /\ AlreadyCleaned(returned.lines)

\* C13: a block comment and a run of line comments with the same content
\* lines give the same cleaned lines from clean_comment_block and the same
\* full_comment from parse_object_comments
C13_BlockLineEquivalence ==
    \A c \in Contents :
        lines_raw = ContentLineComments(c)
            => /\ called = "clean_comment_block"
                    => returned.lines = clean_comment_block(ContentBlock(c))
               /\ called = "parse_object_comments"
                    => /\ returned.exc = ""
                       /\ returned.data # <<>>
                       /\ get_str(returned.data, KEY_full_comment)
                              = get_str(parse_object_comments(ContentBlock(c)).data,
                                        KEY_full_comment)

\* no line holds a comment of either style
NoComment(l) ==
    \A i \in 1..Len(l) : ~contains(l[i], <<"/","/">>) /\ ~contains(l[i], <<"/","*">>)

\* C14: for lines without a comment clean_comment_block returns the empty
\* list and parse_object_comments the empty mapping, and
\* parse_parameter_comments returns the empty mapping for a window that is
\* one declaration line without a comment
C14_AbsenceIsEmpty ==
    NoComment(lines_raw)
        => /\ called = "clean_comment_block" => returned.lines = <<>>
           /\ called = "parse_object_comments"
                => returned.exc = "" /\ returned.data = <<>>
           /\ (called = "parse_parameter_comments" /\ Len(lines_raw) = 1)
                => returned.exc = "" /\ returned.data = <<>>

\* a call on lines that hold code and no comment has returned
C14_Witness ==
    /\ \/ called = "parse_object_comments" /\ lines_raw = <<L_blank, L_code, L_code>>
       \/ called = "parse_parameter_comments" /\ lines_raw = <<L_code>>
    /\ NoComment(lines_raw)
    /\ returned.data = <<>>

\* C15: for a block comment followed by a declaration line without a
\* line-comment marker, parse_parameter_comments returns the empty
\* inline_comment and, as description, the cleaned lines joined by a space,
\* whatever the comment and the declaration contain
C15_NoInlineRemark ==
    called = "parse_parameter_comments"
        => \A c \in Contents, decl \in Declarations :
              lines_raw = ContentBlock(c) \o <<decl>>
                  => /\ returned.exc = ""
                     /\ has_key(returned.data, KEY_inline_comment)
                     /\ get_str(returned.data, KEY_inline_comment) = <<>>
                     /\ get_str(returned.data, KEY_description) = join(<<" ">>, c)

-----------------------------------------------------------------------------
(* Further properties of parse_contract_file (Spec) *)

\* C16: once add_inline_comments has returned, every parameter whose
\* declaration line carries a trailing remark has that remark in its
\* inline_comment field
C16_InlineCommentStored ==
    pc \in {"remove_duplicate_comments_in_parameters", "done"}
        => \A j \in 1..Len(df_p) :
              lines[df_p[j].line_number] = SRC_inline
                  => /\ "inline_comment" \in DOMAIN df_p[j]
                     /\ df_p[j].inline_comment = <<"r">>

-----------------------------------------------------------------------------
(* extract_objects_and_parameters (models.py 234-294): the trees *)

EventDefinition == <<"E","v","e","n","t","D","e","f","i","n","i","t","i","o","n">>
ModifierDefinition == <<"M","o","d","i","f","i","e","r","D","e","f","i","n","i","t","i","o","n">>
StructDefinition == <<"S","t","r","u","c","t","D","e","f","i","n","i","t","i","o","n">>
EnumDefinition == <<"E","n","u","m","D","e","f","i","n","i","t","i","o","n">>
StateVariableDeclaration == <<"S","t","a","t","e","V","a","r","i","a","b","l","e","D","e","c","l","a","r","a","t","i","o","n">>
UsingForDeclaration == <<"U","s","i","n","g","F","o","r","D","e","c","l","a","r","a","t","i","o","n">>
PragmaDirective == <<"P","r","a","g","m","a","D","i","r","e","c","t","i","v","e">>
SafeMath == <<"S","a","f","e","M","a","t","h">>

\* a variant of SUPPORTED_OBJECT_TYPES that also holds the using-for
\* declarations
SUPPORTED_WITH_USING_FOR ==
    {ContractDefinition, EventDefinition, ModifierDefinition, FunctionDefinition,
     StructDefinition, EnumDefinition, UsingForDeclaration}

SUPPORTED_OBJECT_TYPES ==
    {ContractDefinition, EventDefinition, ModifierDefinition, FunctionDefinition,
     StructDefinition, EnumDefinition}

IGNORE_CONTRACTS == {SafeMath}

\* most members of the first contract of a tree
MaxMembers == 2

\* most children (arguments, fields, enum members, variables) of a member
MaxChildren == 2

Digits == <<"0","1","2","3","4","5","6","7","8","9">>

MemberName(mi) == <<"m", Digits[mi + 1]>>

ChildName(k) == <<"p", Digits[k + 1]>>

\* the value of a key a node does not have
Absent == [kind |-> "absent", items |-> <<>>]

\* the ParameterList node of a function, event or modifier
ParameterList(children) == [kind |-> "dict", items |-> children]

\* the members of a struct or enum
MemberList(children) == [kind |-> "list", items |-> children]

\* a variable, argument, field or enum member, on its line
Child(k, line) == [name |-> ChildName(k), line |-> line]

\* the lines of a tree are laid out in source order: line 1 is the pragma,
\* a contract takes one line and then MaxChildren + 1 lines per member
LinesOfMember == MaxChildren + 1

LinesOfContract == 1 + MaxMembers * LinesOfMember

ContractStart(ci) == 2 + (ci - 1) * LinesOfContract

MemberStart(ci, mi) == ContractStart(ci) + 1 + (mi - 1) * LinesOfMember

\* member mi of contract ci, of the given type and with n children, one per
\* line from the member's first line on
Member(type, ci, mi, n) ==
    [type |-> type,
     name |-> MemberName(mi),
     loc |-> <<MemberStart(ci, mi), MemberStart(ci, mi) + MaxChildren>>,
     variables |-> IF type = StateVariableDeclaration
                   THEN [k \in 1..n |-> Child(k, MemberStart(ci, mi) + k - 1)]
                   ELSE <<>>,
     parameters |-> IF type \in {FunctionDefinition, EventDefinition, ModifierDefinition}
                    THEN ParameterList([k \in 1..n |-> Child(k, MemberStart(ci, mi) + k - 1)])
                    ELSE Absent,
     members |-> IF type \in {StructDefinition, EnumDefinition}
                 THEN MemberList([k \in 1..n |-> Child(k, MemberStart(ci, mi) + k - 1)])
                 ELSE Absent]

MemberTypes ==
    {StateVariableDeclaration, FunctionDefinition, EventDefinition, ModifierDefinition,
     StructDefinition, EnumDefinition, UsingForDeclaration}

MemberShapes == MemberTypes \X (0..MaxChildren)

\* the member lists of contract ci made of the given shapes
MemberLists(ci, shapes) ==
    {[mi \in 1..Len(q) |-> Member(q[mi][1], ci, mi, q[mi][2])] : q \in shapes}

ContractNode(ci, name, subNodes) ==
    [type |-> ContractDefinition,
     name |-> name,
     loc |-> <<ContractStart(ci), ContractStart(ci) + LinesOfContract - 1>>,
     subNodes |-> subNodes]

PragmaNode ==
    [type |-> PragmaDirective, name |-> <<>>, loc |-> <<1, 1>>, subNodes |-> <<>>]

\* the trees: a pragma, a contract C of up to MaxMembers members and, in
\* some, a second contract, D or SafeMath, with no member, a function or a
\* using-for declaration
SourceUnits ==
    {<<PragmaNode, ContractNode(1, ContractNames[1], m1)>> :
        m1 \in MemberLists(1, SeqsUpTo(MemberShapes, MaxMembers))}
    \cup
    {<<PragmaNode, ContractNode(1, ContractNames[1], m1), ContractNode(2, n2, m2)>> :
        m1 \in MemberLists(1, SeqsUpTo(MemberShapes, MaxMembers)),
        n2 \in {ContractNames[2], SafeMath},
        m2 \in MemberLists(2, {<<>>, << <<FunctionDefinition, 1>> >>,
                                   << <<UsingForDeclaration, 0>> >>})}

-----------------------------------------------------------------------------
(* extract_objects_and_parameters: the walk *)

\* lines 250-251: the contract nodes of the tree that are not ignored
contracts(tree) ==
    SelectSeq(SelectSeq(tree, LAMBDA c : c.type = ContractDefinition),
              LAMBDA c : c.name \notin IGNORE_CONTRACTS)

\* a variant of concat that puts the new row first
concat_first(df, row) == <<row>> \o df

\* pd.concat([df, row], ignore_index=True): lines 262, 272, 277, 289
concat(df, row) == Append(df, row)

\* a variant of add_parameter for a parameters list that all objects share
add_parameter_to_all(lists, parent, paramObj) ==
    [k \in 1..Len(lists) |-> Append(lists[k], paramObj)]

\* ContractObject.add_parameter, called by ContractParameter.__post_init__
add_parameter(lists, parent, paramObj) ==
    [lists EXCEPT ![parent] = Append(@, paramObj)]

\* ContractObject.get_object_values: the member names of an enum
get_object_values(ast_node) ==
    IF ast_node.type = EnumDefinition
    THEN [k \in 1..Len(ast_node.members.items) |-> ast_node.members.items[k].name]
    ELSE <<>>

\* ContractObject.from_ast_node and to_row for a contract
contract_row(c) == ObjectRow(c.name, ContractDefinition, c.name, c.loc)

\* ContractObject.from_ast_node and to_row for a member of a contract
member_row(ast_node, contractName) ==
    [ObjectRow(contractName, ast_node.type, ast_node.name, ast_node.loc)
        EXCEPT !.values = get_object_values(ast_node)]

\* a variant of child_nodes that takes every list of children
child_nodes_of_any_list(ast_node) ==
    IF ast_node.parameters.kind = "dict" THEN ast_node.parameters.items
    ELSE IF ast_node.parameters.kind = "list" THEN ast_node.parameters.items
    ELSE ast_node.members.items

\* lines 280-286: the children of a member that become parameters.  paramObj
\* is item['parameters'], or item['members'] when there is none
child_nodes(ast_node) ==
    IF ast_node.parameters.kind = "dict" THEN ast_node.parameters.items
    ELSE IF ast_node.parameters.kind = "list"
         THEN IF ast_node.type = StructDefinition THEN ast_node.parameters.items ELSE <<>>
    ELSE IF ast_node.members.kind = "list" /\ ast_node.type = StructDefinition
         THEN ast_node.members.items
    ELSE <<>>

\* the loops of lines 270-272 and 287-289: a ContractParameter is made of
\* each child from k on, which registers it with its parent, and its row is
\* added to the parameters table
RECURSIVE add_children(_, _, _, _, _, _)
add_children(params_df, lists, children, k, parent, parent_row) ==
    IF k > Len(children) THEN [df_p |-> params_df, parameters |-> lists]
    ELSE add_children(
             concat(params_df,
                    ParameterRow(children[k].name, parent, parent_row, children[k].line)),
             add_parameter(lists, parent, Len(params_df) + 1),
             children, k + 1, parent, parent_row)

\* the position in df_o of the object of the contract being walked
contract_position(objects_df) ==
    MaxOf({k \in 1..Len(objects_df) : objects_df[k].type = ContractDefinition})

InitExtract ==
    /\ sourceUnit \in SourceUnits
    /\ pc = "extract_objects_and_parameters"
    /\ idx = 1
    /\ item = 0
    /\ df_o = <<>>
    /\ df_p = <<>>
    /\ parameters = <<>>
    /\ exc = ""
    /\ lines = <<>>
    /\ prevObjectLoc = <<0, 0>>
    /\ comment_start = 0
    /\ commentLines = <<>>
    /\ lines_raw = <<>>
    /\ called = ""
    /\ returned = NoReturn
    /\ NoDriver

extract_frame == <<sourceUnit, pc, exc, lines, prevObjectLoc, comment_start, commentLines,
                   call_vars, driver_vars>>

\* lines 257-262: the object of the next contract
ExtractContract ==
    /\ pc = "extract_objects_and_parameters"
    /\ sourceUnit # <<>>
    /\ item = 0
    /\ idx <= Len(contracts(sourceUnit))
    /\ df_o' = concat(df_o, contract_row(contracts(sourceUnit)[idx]))
    /\ parameters' = Append(parameters, <<>>)
    /\ item' = 1
    /\ UNCHANGED <<df_p, idx, extract_frame>>

\* what a member adds to the tables
ExtractAdded(objects_df, added) ==
    /\ df_o' = objects_df
    /\ df_p' = added.df_p
    /\ parameters' = added.parameters

\* lines 265-292 for the member ast_node of the contract c
ExtractNode(c, ast_node) ==
    IF ast_node.type = StateVariableDeclaration
    THEN ExtractAdded(df_o,
                      add_children(df_p, parameters, ast_node.variables, 1,
                                   contract_position(df_o),
                                   df_o[contract_position(df_o)]))
    ELSE IF ast_node.type \notin SUPPORTED_OBJECT_TYPES
         THEN \* the AssertionError of from_ast_node, caught at line 290
              UNCHANGED <<df_o, df_p, parameters>>
    ELSE ExtractAdded(concat(df_o, member_row(ast_node, c.name)),
                      add_children(df_p, Append(parameters, <<>>), child_nodes(ast_node), 1,
                                   Len(df_o) + 1, member_row(ast_node, c.name)))

\* one iteration of the loop over the members of a contract: lines 265-292
ExtractMember ==
    /\ pc = "extract_objects_and_parameters"
    /\ sourceUnit # <<>>
    /\ idx <= Len(contracts(sourceUnit))
    /\ item \in 1..Len(contracts(sourceUnit)[idx].subNodes)
    /\ ExtractNode(contracts(sourceUnit)[idx], contracts(sourceUnit)[idx].subNodes[item])
    /\ item' = item + 1
    /\ UNCHANGED <<idx, extract_frame>>

\* the members of the contract are done: line 257, next contract
ExtractNextContract ==
    /\ pc = "extract_objects_and_parameters"
    /\ sourceUnit # <<>>
    /\ idx <= Len(contracts(sourceUnit))
    /\ item > Len(contracts(sourceUnit)[idx].subNodes)
    /\ idx' = idx + 1
    /\ item' = 0
    /\ UNCHANGED <<df_o, df_p, parameters, extract_frame>>

\* line 294
ExtractReturn ==
    /\ pc = "extract_objects_and_parameters"
    /\ sourceUnit # <<>>
    /\ idx > Len(contracts(sourceUnit))
    /\ pc' = "extracted"
    /\ UNCHANGED <<sourceUnit, df_o, df_p, idx, item, parameters, exc, lines,
                   prevObjectLoc, comment_start, commentLines, call_vars, driver_vars>>

NextExtract ==
    \/ ExtractContract
    \/ ExtractMember
    \/ ExtractNextContract
    \/ ExtractReturn

SpecExtract == InitExtract /\ [][NextExtract]_vars

-----------------------------------------------------------------------------
(* Properties of extract_objects_and_parameters (SpecExtract) *)

\* the members of the tree that are walked: <<contract, member>> positions
WalkedMembers ==
    {<<ci, mi>> \in (1..Len(contracts(sourceUnit))) \X (1..MaxMembers + 1) :
        mi <= Len(contracts(sourceUnit)[ci].subNodes)}

NodeAt(w) == contracts(sourceUnit)[w[1]].subNodes[w[2]]

\* the positions in df_o of the rows made of the node n of contract c
RowsOf(c, n) ==
    {k \in 1..Len(df_o) : df_o[k].line_numbers = n.loc /\ df_o[k].contract = c.name}

\* the parameter rows declared on the lines of the node n
ParametersWithin(n) ==
    {j \in 1..Len(df_p) : df_p[j].line_number \in n.loc[1]..n.loc[2]}

\* C17: a member of an unsupported type is skipped without failing: it has
\* no object and no parameter record, and every contract and every other
\* member, before or after it, has its records when the walk returns
C17_UnsupportedSkipped ==
    /\ sourceUnit # <<>> => exc = ""
    /\ pc = "extracted"
         => /\ \A ci \in 1..Len(contracts(sourceUnit)) :
                  Cardinality(RowsOf(contracts(sourceUnit)[ci], contracts(sourceUnit)[ci])) = 1
            /\ \A w \in WalkedMembers :
                  /\ NodeAt(w).type = UsingForDeclaration
                        => /\ RowsOf(contracts(sourceUnit)[w[1]], NodeAt(w)) = {}
                           /\ ParametersWithin(NodeAt(w)) = {}
                  /\ NodeAt(w).type \notin {UsingForDeclaration, StateVariableDeclaration}
                        => Cardinality(RowsOf(contracts(sourceUnit)[w[1]], NodeAt(w))) = 1
                  /\ NodeAt(w).type = StateVariableDeclaration
                        => Cardinality(ParametersWithin(NodeAt(w)))
                               = Len(NodeAt(w).variables)

\* the walk has returned for a tree whose first contract has an unsupported
\* member before a function, and that has a second contract with a function
C17_Witness ==
    /\ pc = "extracted"
    /\ Len(contracts(sourceUnit)) = 2
    /\ Len(contracts(sourceUnit)[1].subNodes) = 2
    /\ contracts(sourceUnit)[1].subNodes[1].type = UsingForDeclaration
    /\ contracts(sourceUnit)[1].subNodes[2].type = FunctionDefinition
    /\ Len(contracts(sourceUnit)[2].subNodes) = 1
    /\ contracts(sourceUnit)[2].subNodes[1].type = FunctionDefinition
    /\ Len(df_o) = 4

\* the names and lines of the rows of df_p whose parent is the object at
\* position k of df_o, in table order
ParamsOf(k) ==
    LET rows == SelectSeq(df_p, LAMBDA r : r.parent = k)
    IN  [i \in 1..Len(rows) |-> [name |-> rows[i].parameter_name, line |-> rows[i].line_number]]

\* the variables of the state-variable declarations among subNodes, from
\* member k on
RECURSIVE StateVariables(_, _)
StateVariables(subNodes, k) ==
    IF k > Len(subNodes) THEN <<>>
    ELSE (IF subNodes[k].type = StateVariableDeclaration THEN subNodes[k].variables ELSE <<>>)
             \o StateVariables(subNodes, k + 1)

PositionOf(c, n) == CHOOSE k \in RowsOf(c, n) : TRUE

\* the contract's own object has one parameter per declared state variable
StateVariablesExpanded ==
    \A ci \in 1..Len(contracts(sourceUnit)) :
        ParamsOf(PositionOf(contracts(sourceUnit)[ci], contracts(sourceUnit)[ci]))
            = StateVariables(contracts(sourceUnit)[ci].subNodes, 1)

\* the member at w has one parameter per argument
ArgumentsExpanded(w) ==
    NodeAt(w).type \in {FunctionDefinition, EventDefinition, ModifierDefinition}
        => ParamsOf(PositionOf(contracts(sourceUnit)[w[1]], NodeAt(w)))
               = NodeAt(w).parameters.items

C19_SourceOrder ==
    /\ \A i, j \in 1..Len(df_o) :
          i < j => df_o[i].line_numbers[1] < df_o[j].line_numbers[1]
    /\ \A j \in 1..Len(df_o) :
          /\ df_o[1].type = ContractDefinition
          /\ df_o[j].contract
                 = df_o[MaxOf({k \in 1..j : df_o[k].type = ContractDefinition})].object_name
    /\ \A i, j \in 1..Len(df_p) :
          i < j => df_p[i].line_number <= df_p[j].line_number

\* the walk has returned with the objects of two contracts and parameters
\* of three parents
C19_Witness ==
    /\ pc = "extracted"
    /\ Len(df_o) = 5
    /\ Cardinality({df_p[j].parent : j \in 1..Len(df_p)}) = 3

\* C20: every parameter is in the parameters list of its parent object and
\* of no other object, once, and every list holds its parameters in the
\* order they were made
C20_RegisteredWithParent ==
    /\ Len(parameters) = Len(df_o)
    /\ \A j \in 1..Len(df_p) :
          /\ df_p[j].parent \in 1..Len(df_o)
          /\ \A k \in 1..Len(parameters) :
                Cardinality({i \in 1..Len(parameters[k]) : parameters[k][i] = j})
                    = IF k = df_p[j].parent THEN 1 ELSE 0
    /\ \A k \in 1..Len(parameters) :
          /\ \A i \in 1..Len(parameters[k]) : parameters[k][i] \in 1..Len(df_p)
          /\ \A i, j \in 1..Len(parameters[k]) : i < j => parameters[k][i] < parameters[k][j]

\* parameters have been made for two objects, two of them for one object
C20_Witness ==
    /\ pc = "extract_objects_and_parameters"
    /\ \E k, m \in 1..Len(parameters) :
          k # m /\ Len(parameters[k]) = 2 /\ Len(parameters[m]) >= 1

-----------------------------------------------------------------------------
(* ContractParameter (models.py 114-210): the values of a tree node.  A     *)
(* Python value is None, a str or a dict; a dict is the set of its keys and *)
(* the value under each.  The trees are parsed with loc=True; the loc of a  *)
(* node is read by none of these methods and is left out of the nodes.      *)

None == [t |-> "None"]

Str(x) == [t |-> "str", v |-> x]

Dict(r) == [t |-> "dict", keys |-> DOMAIN r, v |-> r]

EmptyDict == [t |-> "dict", keys |-> {}, v |-> <<>>]

\* d.get(k, default)
get(d, k, default) == IF k \in d.keys THEN d.v[k] ELSE default

ERRORMSG == <<"e","r","r","o","r",":"," ","c","o","u","l","d"," ","n","o","t"," ","p","a","r","s","e">>

\* the order in which the parser inserts the keys of a node, which is the
\* order in which str() of the node lists them
KeyOrder == <<"type", "name", "namePath", "number", "value", "subdenomination">>

KeyText(k) ==
    CASE k = "type" -> <<"t","y","p","e">>
      [] k = "name" -> <<"n","a","m","e">>
      [] k = "namePath" -> <<"n","a","m","e","P","a","t","h">>
      [] k = "number" -> <<"n","u","m","b","e","r">>
      [] k = "value" -> <<"v","a","l","u","e">>
      [] k = "subdenomination" -> <<"s","u","b","d","e","n","o","m","i","n","a","t","i","o","n">>

\* repr() of a str or None held by a node
repr_leaf(x) == IF x.t = "None" THEN <<"N","o","n","e">> ELSE <<"'">> \o x.v \o <<"'">>

RECURSIVE repr_items(_, _)
repr_items(d, k) ==
    IF k > Len(KeyOrder) THEN <<>>
    ELSE IF KeyOrder[k] \notin d.keys THEN repr_items(d, k + 1)
    ELSE << <<"'">> \o KeyText(KeyOrder[k]) \o <<"'",":"," ">> \o repr_leaf(d.v[KeyOrder[k]]) >>
            \o repr_items(d, k + 1)

\* str(x), which is also what an f-string makes of x
format(x) ==
    CASE x.t = "str" -> x.v
      [] x.t = "None" -> <<"N","o","n","e">>
      [] x.t = "dict" -> <<"{">> \o join(<<","," ">>, repr_items(x, 1)) \o <<"}">>

UPPERCASE == <<"A","B","C","D","E","F","G","H","I","J","K","L","M",
               "N","O","P","Q","R","S","T","U","V","W","X","Y","Z">>

LOWERCASE == <<"a","b","c","d","e","f","g","h","i","j","k","l","m",
               "n","o","p","q","r","s","t","u","v","w","x","y","z">>

lower_char(c) ==
    IF \E i \in 1..26 : UPPERCASE[i] = c
    THEN LOWERCASE[CHOOSE i \in 1..26 : UPPERCASE[i] = c]
    ELSE c

\* s.lower()
lower(s) == [i \in 1..Len(s) |-> lower_char(s[i])]

IsNoDigit(c) == \A i \in 1..10 : Digits[i] # c

\* re.sub(r"\d+", "", s)
sub_digits(s) == SelectSeq(s, IsNoDigit)

\* lines 160, 161 and 166: the name of a key, value or base type.  The
\* default of a get is evaluated before the get
placeholder(typeNode) == Str(<<"t","y","p","e",":">> \o get(typeNode, "type", Str(<<"?">>)).v)

nested_type_name(typeNode) ==
    get(typeNode, "name", get(typeNode, "namePath", placeholder(typeNode)))

\* line 175, with the placeholder of the nested types in the place of ERRORMSG
other_type_placeholder(typeDict) ==
    get(typeDict, "name", get(typeDict, "namePath", placeholder(typeDict)))

\* line 175
other_type_name(typeDict) ==
    get(typeDict, "name", get(typeDict, "namePath", Str(ERRORMSG)))

\* lines 167-172
none_to_empty(x) == IF x = None THEN Str(<<>>) ELSE x

\* lines 158-162
mapping_type(typeDict) ==
    Str(<<"m","a","p","p","i","n","g"," ","(">> \o format(nested_type_name(typeDict.v["keyType"]))
        \o <<" ","=",">"," ">> \o format(nested_type_name(typeDict.v["valueType"])) \o <<")">>)

\* lines 165-173
array_type(param, typeDict) ==
    Str(strip(format(nested_type_name(get(typeDict, "baseTypeName", EmptyDict)))
              \o <<"[">> \o format(none_to_empty(get(typeDict, "length", None)))
              \o <<"]"," ">> \o format(none_to_empty(get(param, "storageLocation", None)))))

\* ContractParameter.get_parameter_type, lines 149-177
get_parameter_type(param) ==
    IF get(param.v["typeName"], "type", None) = Str(<<"M","a","p","p","i","n","g">>)
    THEN mapping_type(param.v["typeName"])
    ELSE IF get(param.v["typeName"], "type", None) = Str(<<"A","r","r","a","y","T","y","p","e","N","a","m","e">>)
    THEN array_type(param, param.v["typeName"])
    ELSE other_type_name(param.v["typeName"])

\* typeType[:-8]
without_last_8(x) == SubSeq(x, 1, Len(x) - 8)

\* ContractParameter.get_parameter_type_category, lines 189-210: [exc, value]
get_parameter_type_category(ast_node) ==
    LET typeDict == ast_node.v["typeName"]
        typeType == get(typeDict, "type", None)
    IN  IF typeType = None
        THEN \* 'TypeName' in None
             [exc |-> "TypeError", value |-> None]
        ELSE IF contains(typeType.v, <<"T","y","p","e","N","a","m","e">>) /\ ~contains(typeType.v, <<"E","l","e","m","e","n","t","a","r","y">>)
        THEN [exc |-> "", value |-> Str(sub_digits(lower(without_last_8(typeType.v))))]
        ELSE IF typeType = Str(<<"M","a","p","p","i","n","g">>)
        THEN [exc |-> "", value |-> Str(<<"m","a","p">>)]
        ELSE [exc |-> "", value |-> Str(sub_digits(format(other_type_name(typeDict))))]

\* the key get_parameter_initial_value reads, line 183
INITIAL_VALUE_KEY == "initial_value"

\* the key under which the tree holds the initial value of a declaration
INITIAL_VALUE_CHILD == "initialValue"

\* lines 183-187 reading the key k
initial_value_under(ast_node, k) ==
    IF get(ast_node, k, None) = None THEN None
    ELSE get(get(ast_node, k, None), "value", Str(format(get(ast_node, k, None))))

\* ContractParameter.get_parameter_initial_value, lines 179-187
get_parameter_initial_value(ast_node) == initial_value_under(ast_node, INITIAL_VALUE_KEY)

-----------------------------------------------------------------------------
(* Direct calls of the ContractParameter class methods on a variable node *)

\* marks a key a node is built without
NoKey == [t |-> "absent"]

\* the dict r with the key k holding x, or r itself when x is NoKey
with_key(r, k, x) ==
    IF x = NoKey THEN r
    ELSE [j \in DOMAIN r \cup {k} |-> IF j = k THEN x ELSE r[j]]

ElementaryTypeName(n) == Dict([type |-> Str(<<"E","l","e","m","e","n","t","a","r","y","T","y","p","e","N","a","m","e">>), name |-> Str(n)])

UserDefinedTypeName(n) == Dict([type |-> Str(<<"U","s","e","r","D","e","f","i","n","e","d","T","y","p","e","N","a","m","e">>), namePath |-> Str(n)])

\* a function type has neither name nor namePath
FunctionTypeName == Dict([type |-> Str(<<"F","u","n","c","t","i","o","n","T","y","p","e","N","a","m","e">>)])

Mapping(k, v) == Dict([type |-> Str(<<"M","a","p","p","i","n","g">>), keyType |-> k, valueType |-> v])

ArrayTypeName(b, l) ==
    Dict(with_key(with_key([type |-> Str(<<"A","r","r","a","y","T","y","p","e","N","a","m","e">>)], "baseTypeName", b), "length", l))

NumberLiteral(n) ==
    Dict([type |-> Str(<<"N","u","m","b","e","r","L","i","t","e","r","a","l">>), number |-> Str(n), subdenomination |-> None])

StringLiteral(x) == Dict([type |-> Str(<<"S","t","r","i","n","g","L","i","t","e","r","a","l">>), value |-> Str(x)])

SimpleTypes ==
    {ElementaryTypeName(<<"u","i","n","t","2","5","6">>), ElementaryTypeName(<<"a","d","d","r","e","s","s">>),
     UserDefinedTypeName(<<"T">>), FunctionTypeName}

\* what a mapping can map to, a base type can be
NestedTypes ==
    SimpleTypes \cup {Mapping(ElementaryTypeName(<<"a","d","d","r","e","s","s">>), ElementaryTypeName(<<"u","i","n","t","2","5","6">>)),
                      ArrayTypeName(ElementaryTypeName(<<"u","i","n","t","2","5","6">>), None),
                      EmptyDict}

KeyTypes == {ElementaryTypeName(<<"a","d","d","r","e","s","s">>), UserDefinedTypeName(<<"T">>), EmptyDict}

Lengths == {NoKey, None, NumberLiteral(<<"3">>), Str(<<"3">>)}

TypeNames ==
    SimpleTypes
        \cup {Mapping(k, v) : <<k, v>> \in KeyTypes \X NestedTypes}
        \cup {ArrayTypeName(b, l) : <<b, l>> \in ((NestedTypes \ {EmptyDict}) \cup {NoKey}) \X Lengths}

StorageLocations == {NoKey, None, Str(<<"m","e","m","o","r","y">>)}

\* where a node can hold an initial value and what it holds there
InitialValues ==
    {<<INITIAL_VALUE_CHILD, NoKey>>,
     <<INITIAL_VALUE_CHILD, StringLiteral(<<"s">>)>>,
     <<INITIAL_VALUE_CHILD, NumberLiteral(<<"1">>)>>,
     <<INITIAL_VALUE_KEY, StringLiteral(<<"s">>)>>,
     <<INITIAL_VALUE_KEY, NumberLiteral(<<"1">>)>>,
     <<INITIAL_VALUE_KEY, None>>}

VariableDeclaration(typeName, location, initial) ==
    Dict(with_key(with_key([name |-> Str(<<"x">>), typeName |-> typeName],
                           "storageLocation", location),
                  initial[1], initial[2]))

VariableDeclarations ==
    {VariableDeclaration(t[1], t[2], t[3]) : t \in TypeNames \X StorageLocations \X InitialValues}

InitParameter ==
    /\ args \in {[ast_node |-> n] : n \in VariableDeclarations}
    /\ called = ""
    /\ returned = NoReturn
    /\ pc = "call"
    /\ fs = <<>>
    /\ repoMetadata = <<>>
    /\ repoDir = <<>>
    /\ fileCount = 0
    /\ errorFiles = <<>>
    /\ df_objects = <<>>
    /\ df_parameters = <<>>
    /\ lines_raw = <<>>
    /\ lines = <<>>
    /\ df_o = <<>>
    /\ df_p = <<>>
    /\ idx = 0
    /\ prevObjectLoc = <<0, 0>>
    /\ comment_start = 0
    /\ commentLines = <<>>
    /\ exc = ""
    /\ sourceUnit = <<>>
    /\ item = 0
    /\ parameters = <<>>

parameter_frame == <<lines_raw, pipeline_vars, extract_vars, args, fs, repoMetadata, repoDir,
                     fileCount, errorFiles, df_objects, df_parameters>>

CallGetParameterType ==
    /\ called = ""
    /\ called' = "get_parameter_type"
    /\ returned' = [exc |-> "", value |-> get_parameter_type(args.ast_node)]
    /\ UNCHANGED parameter_frame

CallGetParameterTypeCategory ==
    /\ called = ""
    /\ called' = "get_parameter_type_category"
    /\ returned' = get_parameter_type_category(args.ast_node)
    /\ UNCHANGED parameter_frame

CallGetParameterInitialValue ==
    /\ called = ""
    /\ called' = "get_parameter_initial_value"
    /\ returned' = [exc |-> "", value |-> get_parameter_initial_value(args.ast_node)]
    /\ UNCHANGED parameter_frame

NextParameter ==
    \/ CallGetParameterType
    \/ CallGetParameterTypeCategory
    \/ CallGetParameterInitialValue

SpecParameter == InitParameter /\ [][NextParameter]_vars

-----------------------------------------------------------------------------
(* Properties of the ContractParameter class methods (SpecParameter) *)

HasOwnName(typeNode) == "name" \in typeNode.keys \/ "namePath" \in typeNode.keys

OwnName(typeNode) ==
    IF "name" \in typeNode.keys THEN typeNode.v["name"].v ELSE typeNode.v["namePath"].v

\* type:<kind>, the kind of a node without one written ?
KindPlaceholder(typeNode) ==
    <<"t","y","p","e",":">> \o (IF "type" \in typeNode.keys THEN typeNode.v["type"].v ELSE <<"?">>)

NameOrPlaceholder(typeNode) ==
    IF HasOwnName(typeNode) THEN OwnName(typeNode) ELSE KindPlaceholder(typeNode)

\* the text of an optional child: empty when the child is missing or None
TextOrEmpty(node, k) ==
    IF k \notin node.keys \/ node.v[k] = None THEN <<>> ELSE format(node.v[k])

BaseOf(typeNode) ==
    IF "baseTypeName" \in typeNode.keys THEN typeNode.v["baseTypeName"] ELSE EmptyDict

\* the rendering of the type of param, a type that is neither a mapping nor
\* an array and has no name rendering as fallback
Rendering(param, typeNode, fallback) ==
    IF "type" \in typeNode.keys /\ typeNode.v["type"] = Str(<<"M","a","p","p","i","n","g">>)
    THEN <<"m","a","p","p","i","n","g"," ","(">> \o NameOrPlaceholder(typeNode.v["keyType"]) \o <<" ","=",">"," ">>
            \o NameOrPlaceholder(typeNode.v["valueType"]) \o <<")">>
    ELSE IF "type" \in typeNode.keys /\ typeNode.v["type"] = Str(<<"A","r","r","a","y","T","y","p","e","N","a","m","e">>)
    THEN rstrip(NameOrPlaceholder(BaseOf(typeNode)) \o <<"[">> \o TextOrEmpty(typeNode, "length")
                    \o <<"]"," ">> \o TextOrEmpty(param, "storageLocation"))
    ELSE IF HasOwnName(typeNode) THEN OwnName(typeNode)
    ELSE fallback

\* C21 as stated: get_parameter_type renders a mapping as mapping (K => V),
\* an array as <baseType>[<length>] <storageLocation> without trailing
\* whitespace, and every other type as its name or, without a name, as the
\* placeholder type:<kind>
C21_TypeRendering ==
    called = "get_parameter_type" =>
        returned.value = Str(Rendering(args.ast_node, args.ast_node.v["typeName"],
                                       KindPlaceholder(args.ast_node.v["typeName"])))

\* C21: get_parameter_type renders a mapping as mapping (K => V) with K and
\* V their own names or else type:<kind>, an array as
\* <baseType>[<length>] <storageLocation> without trailing whitespace, and
\* every other type as its name or, without a name, as the fixed text
\* 'error: could not parse'
C21_TypeRenderingErrorMessage ==
    called = "get_parameter_type" =>
        returned.value = Str(Rendering(args.ast_node, args.ast_node.v["typeName"], ERRORMSG))

C21_Witness ==
    /\ called = "get_parameter_type"
    /\ args.ast_node.v["typeName"] = FunctionTypeName
    /\ returned.value = Str(ERRORMSG)

\* the literal a literal node holds
LiteralOf(node) == IF "value" \in node.keys THEN node.v["value"] ELSE node.v["number"]

\* C22: get_parameter_initial_value of a node with an initialValue child
\* holding a literal is that literal, and of a node without an initial
\* value is None
C22_InitialValueRead ==
    (called = "get_parameter_initial_value" /\ INITIAL_VALUE_KEY \notin args.ast_node.keys) =>
        returned.value = IF INITIAL_VALUE_CHILD \in args.ast_node.keys
                         THEN LiteralOf(args.ast_node.v[INITIAL_VALUE_CHILD])
                         ELSE None

-----------------------------------------------------------------------------
(* github.py: download_repo (lines 104-206) and what it calls.  The values   *)
(* of repoMetadata are str; REPO_CONFIG_FILE is the sequence of the rows     *)
(* appended to it; the content of SAVEDIR is the set of the files under it,  *)
(* each the sequence of the components of its path                          *)

GITHUB == <<"g","i","t","h","u","b",".","c","o","m">>

FILE_EXT == <<".","s","o","l">>

\* s.strip('/')
RECURSIVE strip_slashes(_)
strip_slashes(s) ==
    IF s # <<>> /\ Head(s) = "/" THEN strip_slashes(Tail(s))
    ELSE IF s # <<>> /\ s[Len(s)] = "/" THEN strip_slashes(SubSeq(s, 1, Len(s) - 1))
    ELSE s

\* what the two requests of get_github_repo_metadata answer
DEFAULT_BRANCH == <<"m","a","i","n">>

UPDATED_AT == <<"d","1">>

COMMIT_DATE == <<"d","2">>

\* lines 76-84
metadata_dict(repoOwner, repoName, defaultBranch, ref, dateUpdated, githubURL) ==
    Dict([owner |-> repoOwner,
          name |-> repoName,
          default_branch |-> defaultBranch,
          ref |-> ref,
          updated_at |-> dateUpdated,
          url |-> githubURL,
          id |-> repoOwner \o <<"_">> \o repoName \o <<"_">>
                    \o (IF ref # <<>> THEN ref ELSE defaultBranch)])

\* lines 48-55 on the components of the URL, the first of them that holds
\* 'github.com' being components[i]
metadata_of_components(components, i, githubURL) ==
    IF i + 2 > Len(components)
    THEN [exc |-> "IndexError", value |-> EmptyDict]
    ELSE [exc |-> "",
          value |-> metadata_dict(components[i + 1], components[i + 2], DEFAULT_BRANCH,
                                  IF i + 2 # Len(components)
                                  THEN components[Len(components)] ELSE <<>>,
                                  IF i + 2 # Len(components)
                                  THEN COMMIT_DATE ELSE UPDATED_AT,
                                  githubURL)]

holds_github(component) == contains(component, GITHUB)

\* get_github_repo_metadata, lines 41-86: [exc, value]; api is "ok" when the
\* API answers the requests and "limited" when it answers 'API rate limit
\* exceeded', which assert_api_rate_limit_not_exceeded (16-20) turns into an
\* AssertionError
get_github_repo_metadata(githubURL, api) ==
    LET components == split(strip_slashes(githubURL), <<"/">>)
        hits == {i \in 1..Len(components) : holds_github(components[i])}
    IN  IF hits = {} THEN [exc |-> "IndexError", value |-> EmptyDict]
        ELSE IF metadata_of_components(components, MinOf(hits), githubURL).exc # ""
        THEN metadata_of_components(components, MinOf(hits), githubURL)
        ELSE IF api # "ok" THEN [exc |-> "AssertionError", value |-> EmptyDict]
        ELSE metadata_of_components(components, MinOf(hits), githubURL)

\* the key get_zipball_api_url reads the default branch from, line 95
DEFAULT_BRANCH_KEY == "defaultBranch"

\* get_zipball_api_url, lines 89-101: [exc, value]
get_zipball_api_url(metadata) ==
    IF metadata.v["ref"] # <<>>
    THEN [exc |-> "", value |-> <<"h","t","t","p","s",":","/","/","g","i","t","h","u","b",".","c","o","m","/">> \o metadata.v["owner"] \o <<"/">>
                                   \o metadata.v["name"] \o <<"/","z","i","p","b","a","l","l","/">> \o metadata.v["ref"]]
    ELSE IF DEFAULT_BRANCH_KEY \notin metadata.keys
    THEN [exc |-> "KeyError", value |-> <<>>]
    ELSE [exc |-> "", value |-> <<"h","t","t","p","s",":","/","/","g","i","t","h","u","b",".","c","o","m","/">> \o metadata.v["owner"] \o <<"/">>
                                   \o metadata.v["name"] \o <<"/","z","i","p","b","a","l","l","/">>
                                   \o metadata.v[DEFAULT_BRANCH_KEY]]

\* lines 127-135: the first row of the file for this URL, {} without one
config_entry(config, githubURL) ==
    LET entries == {k \in 1..Len(config) : config[k].v["url"] = githubURL}
    IN  IF entries = {} THEN EmptyDict ELSE config[MinOf(entries)]

\* os.path.isdir of the directory of that name in SAVEDIR
isdir(files, dirname) == \E p \in files : p[1] = dirname

\* os.listdir of it
listdir(files, dirname) == {p[2] : p \in {q \in files : q[1] = dirname}}

\* lines 159-164: a walk of repoDir meets a directory whose name is subdir.
\* The paths r of the walk start with SAVEDIR and the name of the
\* repository, which no subdir given here is
found_subdir(files, targetName, subdir) ==
    \E p \in files : p[1] = targetName /\ \E i \in 2..(Len(p) - 1) : p[i] = subdir

\* lines 156-164
download_flag(files, targetName, subdir) ==
    ~isdir(files, targetName) \/ ~found_subdir(files, targetName, subdir)

\* lines 182-186: the items of the zip file that are extracted
extracted(zipItems, subdir) ==
    {split(zipItems[k], <<"/">>) : k \in
        {j \in 1..Len(zipItems) :
            /\ contains(zipItems[j], <<"/">> \o strip_slashes(subdir) \o <<"/">>)
            /\ endswith(zipItems[j], FILE_EXT)}}

\* shutil.rmtree(repoDir)
rmtree(files, dirname) == {p \in files : p[1] # dirname}

\* os.rename(repoDir_old, repoDir)
rename(files, oldName, newName) ==
    {IF p[1] = oldName THEN <<newName>> \o Tail(p) ELSE p : p \in files}

\* lines 193-195
remove_existing(files, dirname) == IF isdir(files, dirname) THEN rmtree(files, dirname) ELSE files

\* lines 191-196 on the files of SAVEDIR once the items are extracted:
\* [exc, files]
rename_extracted(files, oldName, targetName) ==
    IF ~isdir(remove_existing(files, targetName), oldName)
    THEN [exc |-> "FileNotFoundError", files |-> remove_existing(files, targetName)]
    ELSE [exc |-> "", files |-> rename(remove_existing(files, targetName), oldName, targetName)]

\* lines 176-196: [exc, files]
extract_and_rename(files, zipItems, subdir, targetName) ==
    rename_extracted(files \cup extracted(zipItems, subdir),
                     split(zipItems[1], <<"/">>)[1], targetName)

SAVEDIR == <<"t","m","p">>

\* os.path.join(SAVEDIR, targetName)
join_path(dir, name) == dir \o <<"/">> \o name

-----------------------------------------------------------------------------
(* download_repo, step by step *)

URL_root == <<"h","t","t","p","s",":","/","/","g","i","t","h","u","b",".","c","o","m","/","o","/","n">>

URL_root_slash == <<"h","t","t","p","s",":","/","/","g","i","t","h","u","b",".","c","o","m","/","o","/","n","/">>

URL_tag == <<"h","t","t","p","s",":","/","/","g","i","t","h","u","b",".","c","o","m","/","o","/","n","/","t","r","e","e","/","v","1">>

URL_owner_only == <<"h","t","t","p","s",":","/","/","g","i","t","h","u","b",".","c","o","m","/","o">>

URL_elsewhere == <<"h","t","t","p","s",":","/","/","g","i","t","l","a","b",".","c","o","m","/","o","/","n">>

URLs == {URL_root, URL_root_slash, URL_tag, URL_owner_only, URL_elsewhere}

SUBDIR_contracts == <<"c","o","n","t","r","a","c","t","s">>

SUBDIR_nested == <<"a","/","b">>

Subdirs == {SUBDIR_contracts, SUBDIR_nested, <<>>}

\* the zip file of the repository: its root, then its files
ZIP_ROOT == <<"o","-","n","-","0","a","1","b","2","c","/">>

ZipWithContracts ==
    <<ZIP_ROOT, ZIP_ROOT \o <<"R","E","A","D","M","E",".","m","d">>, ZIP_ROOT \o <<"c","o","n","t","r","a","c","t","s","/","A",".","s","o","l">>,
      ZIP_ROOT \o <<"a","/","b","/","B",".","s","o","l">>>>

ZipWithoutContracts == <<ZIP_ROOT, ZIP_ROOT \o <<"R","E","A","D","M","E",".","m","d">>>>

ZipFiles == {ZipWithContracts, ZipWithoutContracts}

\* the rows an earlier call for a URL left in REPO_CONFIG_FILE
ConfigFiles ==
    {<<>>}
        \cup {<<get_github_repo_metadata(u, "ok").value>> : u \in {URL_root, URL_tag}}
        \cup {<<get_github_repo_metadata(URL_tag, "ok").value,
                get_github_repo_metadata(URL_root, "ok").value>>}

ID_root == <<"o","_","n","_","m","a","i","n">>

ID_tag == <<"o","_","n","_","v","1">>

\* what earlier calls left in SAVEDIR
SavedFiles ==
    {{},
     {<<ID_root, <<"c","o","n","t","r","a","c","t","s">>, <<"A",".","s","o","l">>>>},
     {<<ID_root, <<"a">>, <<"b">>, <<"B",".","s","o","l">>>>},
     {<<ID_tag, <<"c","o","n","t","r","a","c","t","s">>, <<"A",".","s","o","l">>>>, <<ID_root, <<"a">>, <<"b">>, <<"B",".","s","o","l">>>>}}

InitDownload ==
    /\ args \in [githubURL : URLs, subdir : Subdirs]
    /\ fs \in [config : ConfigFiles, files : SavedFiles, api : {"ok", "limited"},
               zip : ZipFiles]
    /\ pc = "download_repo"
    /\ exc = ""
    /\ repoMetadata = EmptyDict
    /\ repoDir = <<>>
    /\ returned = NoReturn
    /\ called = ""
    /\ fileCount = 0
    /\ errorFiles = <<>>
    /\ df_objects = <<>>
    /\ df_parameters = <<>>
    /\ lines_raw = <<>>
    /\ lines = <<>>
    /\ df_o = <<>>
    /\ df_p = <<>>
    /\ idx = 0
    /\ prevObjectLoc = <<0, 0>>
    /\ comment_start = 0
    /\ commentLines = <<>>
    /\ sourceUnit = <<>>
    /\ item = 0
    /\ parameters = <<>>

download_frame == <<args, lines_raw, called, lines, df_o, df_p, idx, prevObjectLoc,
                    comment_start, commentLines, extract_vars, fileCount, errorFiles,
                    df_objects, df_parameters>>

\* lines 119-135: the assertion, which is outside the try, and the read of
\* REPO_CONFIG_FILE
DownloadRepoReadConfig ==
    /\ pc = "download_repo"
    /\ exc = ""
    /\ IF ~contains(args.githubURL, GITHUB)
       THEN /\ exc' = "AssertionError"
            /\ UNCHANGED <<pc, repoMetadata, repoDir>>
       ELSE /\ repoMetadata' = config_entry(fs.config, args.githubURL)
            /\ repoDir' = <<>>
            /\ pc' = "metadata"
            /\ exc' = exc
    /\ UNCHANGED <<fs, returned, download_frame>>

\* lines 139-149: the metadata is asked of the API and appended to
\* REPO_CONFIG_FILE when the file has no row for the URL
DownloadRepoMetadata ==
    /\ pc = "metadata"
    /\ exc = ""
    /\ IF repoMetadata # EmptyDict
       THEN /\ pc' = "target"
            /\ UNCHANGED <<repoMetadata, fs>>
       ELSE IF get_github_repo_metadata(args.githubURL, fs.api).exc # ""
       THEN /\ pc' = "except"
            /\ UNCHANGED <<repoMetadata, fs>>
       ELSE /\ repoMetadata' = get_github_repo_metadata(args.githubURL, fs.api).value
            /\ fs' = [fs EXCEPT !.config = Append(@, repoMetadata')]
            /\ pc' = "target"
    /\ UNCHANGED <<exc, repoDir, returned, download_frame>>

\* lines 153-164
DownloadRepoTarget ==
    /\ pc = "target"
    /\ exc = ""
    /\ repoDir' = join_path(SAVEDIR, repoMetadata.v["id"])
    /\ pc' = IF download_flag(fs.files, repoMetadata.v["id"], args.subdir)
             THEN "download" ELSE "use"
    /\ UNCHANGED <<exc, repoMetadata, fs, returned, download_frame>>

\* lines 166-198
DownloadRepoDownload ==
    /\ pc = "download"
    /\ exc = ""
    /\ IF get_zipball_api_url(repoMetadata).exc # ""
       THEN /\ pc' = "except"
            /\ fs' = fs
       ELSE /\ fs' = [fs EXCEPT !.files = extract_and_rename(@, fs.zip, args.subdir,
                                                             repoMetadata.v["id"]).files]
            /\ pc' = IF extract_and_rename(fs.files, fs.zip, args.subdir,
                                           repoMetadata.v["id"]).exc # ""
                     THEN "except" ELSE "return"
    /\ UNCHANGED <<exc, repoMetadata, repoDir, returned, download_frame>>

\* lines 199-200
DownloadRepoUse ==
    /\ pc = "use"
    /\ exc = ""
    /\ pc' = "return"
    /\ UNCHANGED <<exc, repoMetadata, repoDir, fs, returned, download_frame>>

\* lines 202-204
DownloadRepoExcept ==
    /\ pc = "except"
    /\ exc = ""
    /\ repoDir' = <<>>
    /\ pc' = "return"
    /\ UNCHANGED <<exc, repoMetadata, fs, returned, download_frame>>

\* line 206
DownloadRepoReturn ==
    /\ pc = "return"
    /\ exc = ""
    /\ returned' = [exc |-> "", repoDir |-> repoDir, repoMetadata |-> repoMetadata]
    /\ pc' = "returned"
    /\ UNCHANGED <<exc, repoMetadata, repoDir, fs, download_frame>>

NextDownload ==
    \/ DownloadRepoReadConfig
    \/ DownloadRepoMetadata
    \/ DownloadRepoTarget
    \/ DownloadRepoDownload
    \/ DownloadRepoUse
    \/ DownloadRepoExcept
    \/ DownloadRepoReturn

SpecDownload == InitDownload /\ [][NextDownload]_vars

-----------------------------------------------------------------------------
(* Properties of download_repo (SpecDownload) *)

\* the URL of the root of a repository, without tag or branch
RootURLs == {URL_root, URL_root_slash}

\* os.path.isdir(repoDir) and len(os.listdir(repoDir)) of what is returned
ReturnedDirectoryHasFiles ==
    \E p \in fs.files :
        /\ returned.repoDir = join_path(SAVEDIR, p[1])
        /\ listdir(fs.files, p[1]) # {}

\* the requests are answered and the zip file has source files in subdir
RequestsSucceed ==
    /\ fs.api = "ok"
    /\ extracted(fs.zip, args.subdir) # {}

\* C23: download_repo of the root URL of a repository and a subdirectory,
\* the requests answering, returns the owner and the name of the URL and a
\* repoDir that is a directory that exists and is not empty
C23_RootDownloaded ==
    (pc = "returned" /\ args.githubURL \in RootURLs /\ args.subdir # <<>> /\ RequestsSucceed) =>
        /\ "owner" \in returned.repoMetadata.keys
        /\ returned.repoMetadata.v["owner"] = <<"o">>
        /\ returned.repoMetadata.v["name"] = <<"n">>
        /\ ReturnedDirectoryHasFiles

-----------------------------------------------------------------------------
(* utils.py: ast_eval (lines 13-35).  ast.literal_eval is modelled on the    *)
(* literals written with decimal digits, names, '...' strings without        *)
(* escapes, brackets, commas and blanks: int, None, True, False, str, list   *)
(* and the tuple a comma makes at the top.  Its exceptions (SyntaxError,     *)
(* ValueError) are all caught by the same except and are not told apart.     *)

PyInt(n) == [t |-> "int", n |-> n]

PyBool(b) == [t |-> "bool", b |-> b]

PyList(l) == [t |-> "list", items |-> l]

PyTuple(l) == [t |-> "tuple", elts |-> l]

DigitChars == {Digits[i] : i \in 1..10}

NameChars == {UPPERCASE[i] : i \in 1..26} \cup {LOWERCASE[i] : i \in 1..26}
                \cup DigitChars \cup {"_"}

\* the end of the run of characters of a class that starts at s[i]
run_end(s, i, class) == MinOf({j \in i..(Len(s) + 1) : j = Len(s) + 1 \/ s[j] \notin class})

\* the quote that closes the str opened at s[i]
closing_quote(s, i) == MinOf({j \in (i + 1)..Len(s) : s[j] = "'"})

\* a decimal int other than zero is not written with a zero in front
leading_zero(digits) == Head(digits) = "0" /\ \E i \in 1..Len(digits) : digits[i] # "0"

Token(k, v) == [k |-> k, v |-> v]

\* the token that starts at s[i], a character that is not a blank, and the
\* index after it
token_at(s, i) ==
    IF s[i] \in DigitChars
    THEN <<Token(IF leading_zero(SubSeq(s, i, run_end(s, i, DigitChars) - 1))
                 THEN "error" ELSE "int",
                 SubSeq(s, i, run_end(s, i, DigitChars) - 1)),
           run_end(s, i, DigitChars)>>
    ELSE IF s[i] \in NameChars
    THEN <<Token("name", SubSeq(s, i, run_end(s, i, NameChars) - 1)), run_end(s, i, NameChars)>>
    ELSE IF s[i] = "'"
    THEN IF \E j \in (i + 1)..Len(s) : s[j] = "'"
         THEN <<Token("str", SubSeq(s, i + 1, closing_quote(s, i) - 1)), closing_quote(s, i) + 1>>
         ELSE <<Token("error", <<>>), Len(s) + 1>>
    ELSE IF s[i] \in {"[", "]", ","}
    THEN <<Token(s[i], <<>>), i + 1>>
    ELSE <<Token("error", <<>>), Len(s) + 1>>

RECURSIVE tokenize(_, _)
tokenize(s, i) ==
    IF i > Len(s) THEN <<>>
    ELSE IF s[i] \in {" ", "\t"} THEN tokenize(s, i + 1)
    ELSE <<token_at(s, i)[1]>> \o tokenize(s, token_at(s, i)[2])

digit_value(c) == (CHOOSE i \in 1..10 : Digits[i] = c) - 1

\* int() of a run of decimal digits
RECURSIVE int_of(_)
int_of(digits) ==
    IF digits = <<>> THEN 0
    ELSE 10 * int_of(SubSeq(digits, 1, Len(digits) - 1)) + digit_value(digits[Len(digits)])

Parsed(value, next) == [ok |-> TRUE, value |-> value, next |-> next]

NotParsed == [ok |-> FALSE, value |-> None, next |-> 0]

kind_at(toks, i) == IF i <= Len(toks) THEN toks[i].k ELSE "end"

\* the end of the run of str tokens that starts at toks[i]
strings_end(toks, i) ==
    MinOf({j \in i..(Len(toks) + 1) : j = Len(toks) + 1 \/ toks[j].k # "str"})

\* adjacent str literals are one str
RECURSIVE concat_strings(_, _, _)
concat_strings(toks, i, j) ==
    IF i >= j THEN <<>> ELSE toks[i].v \o concat_strings(toks, i + 1, j)

NAME_None == <<"N","o","n","e">>

NAME_True == <<"T","r","u","e">>

NAME_False == <<"F","a","l","s","e">>

RECURSIVE parse_atom(_, _)
RECURSIVE parse_items(_, _, _)
RECURSIVE items_after(_, _, _)

\* the literal that starts at toks[i]
parse_atom(toks, i) ==
    CASE kind_at(toks, i) = "int" -> Parsed(PyInt(int_of(toks[i].v)), i + 1)
      [] kind_at(toks, i) = "name" ->
            IF toks[i].v = NAME_None THEN Parsed(None, i + 1)
            ELSE IF toks[i].v = NAME_True THEN Parsed(PyBool(TRUE), i + 1)
            ELSE IF toks[i].v = NAME_False THEN Parsed(PyBool(FALSE), i + 1)
            ELSE NotParsed
      [] kind_at(toks, i) = "str" ->
            Parsed(Str(concat_strings(toks, i, strings_end(toks, i))), strings_end(toks, i))
      [] kind_at(toks, i) = "[" -> parse_items(toks, i + 1, <<>>)
      [] OTHER -> NotParsed

\* the items of a list display from toks[i] on, acc the items before
parse_items(toks, i, acc) ==
    IF kind_at(toks, i) = "]" THEN Parsed(PyList(acc), i + 1)
    ELSE items_after(toks, parse_atom(toks, i), acc)

\* the list display after its item a
items_after(toks, a, acc) ==
    IF ~a.ok THEN NotParsed
    ELSE IF kind_at(toks, a.next) = "," THEN parse_items(toks, a.next + 1, Append(acc, a.value))
    ELSE IF kind_at(toks, a.next) = "]" THEN Parsed(PyList(Append(acc, a.value)), a.next + 1)
    ELSE NotParsed

RECURSIVE parse_tuple(_, _, _)
RECURSIVE tuple_after(_, _, _)

\* the items of a tuple without parentheses from toks[i] on
parse_tuple(toks, i, acc) ==
    IF kind_at(toks, i) = "end" THEN Parsed(PyTuple(acc), i)
    ELSE tuple_after(toks, parse_atom(toks, i), acc)

tuple_after(toks, a, acc) ==
    IF ~a.ok THEN NotParsed
    ELSE IF kind_at(toks, a.next) = "," THEN parse_tuple(toks, a.next + 1, Append(acc, a.value))
    ELSE IF kind_at(toks, a.next) = "end" THEN Parsed(PyTuple(Append(acc, a.value)), a.next)
    ELSE NotParsed

\* the expression the tokens are, after its first literal a
expression_after(toks, a) ==
    IF ~a.ok THEN NotParsed
    ELSE IF kind_at(toks, a.next) = "end" THEN a
    ELSE IF kind_at(toks, a.next) = "," THEN parse_tuple(toks, a.next + 1, <<a.value>>)
    ELSE NotParsed

parse_expression(toks) == expression_after(toks, parse_atom(toks, 1))

\* ast.literal_eval(s): [exc, value].  What is not a str is not a literal
literal_eval(s) ==
    IF s.t # "str" THEN [exc |-> "ValueError", value |-> None]
    ELSE IF parse_expression(tokenize(s.v, 1)).ok
    THEN [exc |-> "", value |-> parse_expression(tokenize(s.v, 1)).value]
    ELSE [exc |-> "SyntaxError", value |-> None]

\* the functions given as alt_fcn: None, lambda s: s.split(','), and a
\* function that raises whatever it is given
ALT_none == "None"

ALT_split == "lambda s: s.split(',')"

ALT_raises == "lambda s: 1 / 0"

str_list(l) == PyList([i \in 1..Len(l) |-> Str(l[i])])

\* alt_fcn(s): [exc, value]
call_alt_fcn(alt_fcn, s) ==
    IF alt_fcn = ALT_raises THEN [exc |-> "ZeroDivisionError", value |-> None]
    ELSE IF s.t # "str" THEN [exc |-> "AttributeError", value |-> None]
    ELSE [exc |-> "", value |-> str_list(split(s.v, <<",">>))]

\* lines 27-33 with the exception of alt_fcn left to propagate
alternative_uncaught(s, alt_fcn) ==
    IF alt_fcn # ALT_none
    THEN call_alt_fcn(alt_fcn, s)
    ELSE [exc |-> "", value |-> s]

\* lines 27-33
alternative(s, alt_fcn) ==
    IF alt_fcn # ALT_none
    THEN IF call_alt_fcn(alt_fcn, s).exc = ""
         THEN [exc |-> "", value |-> call_alt_fcn(alt_fcn, s).value]
         ELSE [exc |-> "", value |-> s]
    ELSE [exc |-> "", value |-> s]

\* ast_eval, lines 13-35: [exc, value]
ast_eval(s, alt_fcn) ==
    IF literal_eval(s).exc = ""
    THEN [exc |-> "", value |-> literal_eval(s).value]
    ELSE alternative(s, alt_fcn)

-----------------------------------------------------------------------------
(* Direct calls of ast_eval *)

\* the longest argument, in pieces
MaxPieces == 3

\* the pieces the arguments are written with
Pieces == {<<"1">>, <<"N","o","n","e">>, <<"'","a","'">>, <<"[">>, <<"]">>, <<",">>, <<" ">>, <<"x">>}

\* the arguments of the tests (tests/test_utils.py 33-41), shortened
TestArguments ==
    {<<"[","[","1",",","1","]",","," ","[","]",","," ","[","1","]","]">>, <<"[","'","a","'",","," ","'","b","'","]">>, <<"[","1",","," ","N","o","n","e",","," ","1","]">>, <<"[","'","a","'"," ","'","b","'","]">>,
     <<"'","a","'",","," ","'","b","'">>, <<"t","h","i","s"," ","i","s"," ","a"," ","s","t","r","i","n","g">>}

\* the arguments that are no str
OtherArguments == {PyInt(5), None, PyList(<<PyInt(1)>>)}

Leaves == {PyInt(1), PyInt(10), None, Str(<<"a">>), PyBool(TRUE)}

\* the values whose text is given to ast_eval
Values ==
    Leaves \cup {PyList(l) : l \in SeqsUpTo(Leaves, 2)}
           \cup {PyList(<<PyList(<<PyInt(1)>>), PyList(<<>>)>>)}

RECURSIVE digits_of(_)
digits_of(n) ==
    IF n < 10 THEN <<Digits[n + 1]>> ELSE digits_of(n \div 10) \o <<Digits[(n % 10) + 1]>>

\* the text Python writes a value as
RECURSIVE Repr(_)
Repr(x) ==
    CASE x.t = "int" -> digits_of(x.n)
      [] x.t = "None" -> <<"N","o","n","e">>
      [] x.t = "bool" -> IF x.b THEN <<"T","r","u","e">> ELSE <<"F","a","l","s","e">>
      [] x.t = "str" -> <<"'">> \o x.v \o <<"'">>
      [] x.t = "list" -> <<"[">> \o join(<<","," ">>, [i \in 1..Len(x.items) |-> Repr(x.items[i])]) \o <<"]">>

EvalArguments ==
    {Str(join(<<>>, q)) : q \in SeqsUpTo(Pieces, MaxPieces)}
        \cup {Str(x) : x \in TestArguments}
        \cup {Str(Repr(x)) : x \in Values}
        \cup OtherArguments

InitEval ==
    /\ args \in [s : EvalArguments, alt_fcn : {ALT_none, ALT_split, ALT_raises}]
    /\ called = ""
    /\ returned = NoReturn
    /\ pc = "call"
    /\ fs = <<>>
    /\ repoMetadata = <<>>
    /\ repoDir = <<>>
    /\ fileCount = 0
    /\ errorFiles = <<>>
    /\ df_objects = <<>>
    /\ df_parameters = <<>>
    /\ lines_raw = <<>>
    /\ lines = <<>>
    /\ df_o = <<>>
    /\ df_p = <<>>
    /\ idx = 0
    /\ prevObjectLoc = <<0, 0>>
    /\ comment_start = 0
    /\ commentLines = <<>>
    /\ exc = ""
    /\ sourceUnit = <<>>
    /\ item = 0
    /\ parameters = <<>>

CallAstEval ==
    /\ called = ""
    /\ called' = "ast_eval"
    /\ returned' = ast_eval(args.s, args.alt_fcn)
    /\ UNCHANGED parameter_frame

NextEval == CallAstEval

SpecEval == InitEval /\ [][NextEval]_vars

-----------------------------------------------------------------------------
(* Properties of ast_eval (SpecEval) *)

\* C24: ast_eval never raises; the text of a value evaluates to the value;
\* when the evaluation fails, what is returned is alt_fcn(s) if an alt_fcn
\* is given and does not raise, and the argument itself otherwise
C24_NeverRaises ==
    called = "ast_eval" =>
        /\ returned.exc = ""
        /\ \A x \in Values : args.s = Str(Repr(x)) => returned.value = x
        /\ literal_eval(args.s).exc # "" =>
              returned.value = IF args.alt_fcn # ALT_none /\ call_alt_fcn(args.alt_fcn, args.s).exc = ""
                               THEN call_alt_fcn(args.alt_fcn, args.s).value
                               ELSE args.s

C24_Witness ==
    /\ called = "ast_eval"
    /\ args.alt_fcn = ALT_raises
    /\ args.s = Str(<<"[","1">>)
    /\ returned = [exc |-> "", value |-> args.s]

-----------------------------------------------------------------------------
(* download_and_parse_contracts.py: parse_repo (lines 22-119).  A file of   *)
(* the project is [subdir, fname, malformed, objects, parameters]: where it  *)
(* is, whether the Solidity parser rejects it, and how many objects and      *)
(* parameters it declares.  A project is the sequence of its files in the    *)
(* order of os.walk, those of the root first.                                *)

EXCLUDE_DIRS == {<<"l","i","b">>, <<"l","i","b","s">>, <<"l","i","b","r","a","r","i","e","s">>, <<"t","e","s","t">>, <<"t","e","s","t","s">>, <<"t","e","s","t","-","h","e","l","p","e","r","s">>,
                 <<"t","e","s","t","H","e","l","p","e","r","s">>, <<"e","x","a","m","p","l","e">>, <<"e","x","a","m","p","l","e","s">>, <<"m","i","g","r","a","t","i","o","n">>}

EXCLUDE_FILES == {<<"S","a","f","e","M","a","t","h",".","s","o","l">>, <<"l","i","b",".","s","o","l">>, <<"M","i","g","r","a","t","i","o","n","s",".","s","o","l">>}

\* re.match(r'I?<letters>\d+\.sol', f)
matches_numbered(f, letters) ==
    \E i \in 1..2 :
        /\ i = 2 => (f # <<>> /\ f[1] = "I")
        /\ OccursAt(f, letters, i)
        /\ run_end(f, i + Len(letters), DigitChars) > i + Len(letters)
        /\ OccursAt(f, FILE_EXT, run_end(f, i + Len(letters), DigitChars))

\* line 86: any of EXCLUDE_FILE_PATTERNS matches at the start of f
matches_exclude_pattern(f) ==
    \/ matches_numbered(f, <<"E","R","C">>)
    \/ matches_numbered(f, <<"E","I","P">>)
    \/ contains(f, <<".","t",".","s","o","l">>)

\* lines 73-77: the walk goes into the directory
keeps_dir(d, useDefaults, excludeDirs, includeDirs) ==
    IF includeDirs # {} THEN d \in includeDirs
    ELSE d \notin (excludeDirs \cup (IF useDefaults THEN EXCLUDE_DIRS ELSE {}))

\* lines 79-86: the file is one to parse
keeps_file(f, useDefaults, excludeFiles, includeFiles) ==
    IF includeFiles # {} THEN f \in includeFiles
    ELSE /\ endswith(f, FILE_EXT)
         /\ f \notin (excludeFiles \cup (IF useDefaults THEN EXCLUDE_FILES ELSE {}))
         /\ useDefaults => ~matches_exclude_pattern(f)

\* lines 69-86: the files of the project that are parsed, in order
RECURSIVE selected_files(_, _)
selected_files(project, a) ==
    IF project = <<>> THEN <<>>
    ELSE (IF /\ (Head(project).subdir = <<>>
                  \/ keeps_dir(Head(project).subdir, a.useDefaults, a.excludeDirs, a.includeDirs))
             /\ keeps_file(Head(project).fname, a.useDefaults, a.excludeFiles, a.includeFiles)
          THEN <<Head(project)>> ELSE <<>>)
         \o selected_files(Tail(project), a)

\* construct_file_url, github.py 23-38
construct_file_url(filepath, metadata) ==
    (IF metadata.v["ref"] # <<>>
     THEN split(metadata.v["url"], <<"/","t","r","e","e">>)[1] \o <<"/","b","l","o","b","/">> \o metadata.v["ref"]
     ELSE metadata.v["url"] \o <<"/","b","l","o","b","/">> \o metadata.v["default_branch"])
        \o <<"/">> \o filepath

\* the parameters of parse_contract_file, models.py 299
PARSE_CONTRACT_FILE_PARAMETERS == {"uri", "debug"}

\* the keyword arguments of the call at line 92
CALL_KEYWORDS == {"label"}

\* the rows the file gives a table: one per declaration
file_rows(file, n) == [k \in 1..n |-> [file |-> file.fname, k |-> k]]

\* line 92, the call of parse_contract_file: [exc, df_o, df_p]
parse_contract_file_called(file, keywords) ==
    IF ~(keywords \subseteq PARSE_CONTRACT_FILE_PARAMETERS)
    THEN [exc |-> "TypeError", df_o |-> <<>>, df_p |-> <<>>]
    ELSE IF file.malformed
    THEN [exc |-> "Exception", df_o |-> <<>>, df_p |-> <<>>]
    ELSE [exc |-> "", df_o |-> file_rows(file, file.objects),
          df_p |-> file_rows(file, file.parameters)]

\* lines 93-95
with_url(rows, fileURL) == [k \in 1..Len(rows) |-> [file |-> rows[k].file, k |-> rows[k].k, url |-> fileURL]]

\* os.path.join(subdir, fname)
file_path(file) == IF file.subdir = <<>> THEN file.fname ELSE join_path(file.subdir, file.fname)

F_A == [subdir |-> <<>>, fname |-> <<"A",".","s","o","l">>, malformed |-> FALSE, objects |-> 2, parameters |-> 1]

F_B == [subdir |-> <<>>, fname |-> <<"B",".","s","o","l">>, malformed |-> TRUE, objects |-> 0, parameters |-> 0]

F_SafeMath == [subdir |-> <<>>, fname |-> <<"S","a","f","e","M","a","t","h",".","s","o","l">>, malformed |-> FALSE, objects |-> 1, parameters |-> 0]

F_IERC20 == [subdir |-> <<>>, fname |-> <<"I","E","R","C","2","0",".","s","o","l">>, malformed |-> FALSE, objects |-> 1, parameters |-> 1]

F_README == [subdir |-> <<>>, fname |-> <<"R","E","A","D","M","E",".","m","d">>, malformed |-> TRUE, objects |-> 0, parameters |-> 0]

F_core == [subdir |-> <<"c","o","r","e">>, fname |-> <<"C",".","s","o","l">>, malformed |-> FALSE, objects |-> 1, parameters |-> 0]

F_test == [subdir |-> <<"t","e","s","t">>, fname |-> <<"T",".","s","o","l">>, malformed |-> FALSE, objects |-> 1, parameters |-> 1]

AllFiles == <<F_A, F_B, F_SafeMath, F_IERC20, F_README, F_core, F_test>>

\* the files of AllFiles at the positions in S, in order
RECURSIVE files_at(_, _)
files_at(S, k) ==
    IF k > Len(AllFiles) THEN <<>>
    ELSE (IF k \in S THEN <<AllFiles[k]>> ELSE <<>>) \o files_at(S, k + 1)

Projects == {files_at(S, 1) : S \in SUBSET (1..Len(AllFiles))}

InitParseRepo ==
    /\ args \in [projectDir : Projects,
                 repoDict : {get_github_repo_metadata(URL_root, "ok").value},
                 useDefaults : BOOLEAN,
                 includeFiles : {{}, {F_B.fname, F_SafeMath.fname}},
                 excludeFiles : {{}},
                 excludeDirs : {{}},
                 includeDirs : {{}}]
    /\ fs \in [objectsFile : {<<>>}, parametersFile : {<<>>}, saved : BOOLEAN]
    /\ pc = "parse_repo"
    /\ exc = ""
    /\ idx = 0
    /\ fileCount = 0
    /\ errorFiles = <<>>
    /\ df_objects = <<>>
    /\ df_parameters = <<>>
    /\ repoMetadata = <<>>
    /\ repoDir = <<>>
    /\ returned = NoReturn
    /\ called = ""
    /\ lines_raw = <<>>
    /\ lines = <<>>
    /\ df_o = <<>>
    /\ df_p = <<>>
    /\ prevObjectLoc = <<0, 0>>
    /\ comment_start = 0
    /\ commentLines = <<>>
    /\ sourceUnit = <<>>
    /\ item = 0
    /\ parameters = <<>>

parse_repo_frame == <<args, repoMetadata, repoDir, returned, called, lines_raw, lines, df_o, df_p,
                      prevObjectLoc, comment_start, commentLines, extract_vars>>

\* lines 29-66: the results of an earlier run are kept, else the walk starts
ParseRepoBegin ==
    /\ pc = "parse_repo"
    /\ exc = ""
    /\ IF fs.saved
       THEN pc' = "returned" /\ idx' = idx
       ELSE pc' = "walk" /\ idx' = 1
    /\ fileCount' = 0
    /\ errorFiles' = <<>>
    /\ df_objects' = <<>>
    /\ df_parameters' = <<>>
    /\ UNCHANGED <<exc, fs, parse_repo_frame>>

\* what the try of lines 91-98 adds for a file
ParseRepoParsed(file, parsed) ==
    IF parsed.exc # ""
    THEN /\ errorFiles' = Append(errorFiles, file_path(file))
         /\ UNCHANGED <<df_objects, df_parameters, fileCount>>
    ELSE /\ df_objects' = df_objects \o with_url(parsed.df_o, construct_file_url(file_path(file), args.repoDict))
         /\ df_parameters' = df_parameters \o with_url(parsed.df_p, construct_file_url(file_path(file), args.repoDict))
         /\ fileCount' = fileCount + 1
         /\ errorFiles' = errorFiles

\* lines 89-101, one file
ParseRepoFile ==
    /\ pc = "walk"
    /\ exc = ""
    /\ idx <= Len(selected_files(args.projectDir, args))
    /\ ParseRepoParsed(selected_files(args.projectDir, args)[idx],
                       parse_contract_file_called(selected_files(args.projectDir, args)[idx],
                                                  CALL_KEYWORDS))
    /\ idx' = idx + 1
    /\ UNCHANGED <<pc, exc, fs, parse_repo_frame>>

\* lines 103-119.  drop(columns=['line_number']) raises when no file gave
\* df_parameters a row, and so a column of that name
ParseRepoSave ==
    /\ pc = "walk"
    /\ exc = ""
    /\ idx > Len(selected_files(args.projectDir, args))
    /\ IF Len(df_objects) = 0
       THEN pc' = "returned" /\ UNCHANGED <<fs, exc>>
       ELSE IF Len(df_parameters) = 0
       THEN /\ fs' = [fs EXCEPT !.objectsFile = df_objects]
            /\ exc' = "KeyError"
            /\ pc' = pc
       ELSE /\ fs' = [fs EXCEPT !.objectsFile = df_objects, !.parametersFile = df_parameters,
                                !.saved = TRUE]
            /\ pc' = "returned"
            /\ exc' = exc
    /\ UNCHANGED <<idx, fileCount, errorFiles, df_objects, df_parameters, parse_repo_frame>>

NextParseRepo ==
    \/ ParseRepoBegin
    \/ ParseRepoFile
    \/ ParseRepoSave

SpecParseRepo == InitParseRepo /\ [][NextParseRepo]_vars

-----------------------------------------------------------------------------
(* Properties of parse_repo (SpecParseRepo) *)

IsMalformed(file) == file.malformed

IsWellFormed(file) == ~file.malformed

Selected == selected_files(args.projectDir, args)

PathsOf(files) == [k \in 1..Len(files) |-> file_path(files[k])]

\* the files of which the table holds a row
FilesIn(rows) == {rows[k].file : k \in 1..Len(rows)}

\* the run went through the walk and returned
WalkReturned == pc = "returned" /\ idx > 0

-----------------------------------------------------------------------------
(* Properties of the three comment passes of parse_contract_file (Spec) *)

\* the lines of src at the 0-based indices from, from + 1, ... below to
LinesAt(src, from, to) ==
    [k \in 1..(IF to > from THEN to - from ELSE 0) |-> src[from + k]]

\* add_docstring_comments is about to handle the object at idx
AtObject == pc = "add_docstring_comments" /\ exc = "" /\ idx \in 1..Len(df_o)

\* C26: for an object spanning lines (s, e), the window add_docstring_comments
\* takes is the source lines at the 0-based indices from c up to but not
\* including s - 1, where c is the end of the previous object's span when
\* that end is at most s - 1 and the start of that span otherwise; when the
\* object has been handled the previous span is (s, e), a comment found or not
C26_ObjectWindow ==
    [][AtObject =>
          /\ commentLines' =
                LinesAt(lines,
                        IF prevObjectLoc[2] <= df_o[idx].line_numbers[1] - 1
                        THEN prevObjectLoc[2] ELSE prevObjectLoc[1],
                        df_o[idx].line_numbers[1] - 1)
          /\ exc' = "" => prevObjectLoc' = df_o[idx].line_numbers]_vars

\* the second object, nested in the first, has been handled: its window ran
\* from the start of the first object's span, held lines, and no comment was
\* found in them
C26_Witness ==
    /\ pc = "add_docstring_comments"
    /\ exc = ""
    /\ idx = 3
    /\ df_o[1].line_numbers[2] > df_o[2].line_numbers[1] - 1
    /\ commentLines # <<>>
    /\ HasNoCommentFields(df_o[2])
    /\ prevObjectLoc = df_o[2].line_numbers

-----------------------------------------------------------------------------
(* parse_contract_file on files whose block comments carry other tags *)

SRC_type == <<"/","*","*"," ","@","t","y","p","e"," ","t"," ","*","/">>

\* the lines of such a file: code, and a block comment of one tag named like
\* a column the objects table has from the start
TaggedLines == {SRC_code, SRC_type, SRC_note}

TaggedFiles(t) ==
    {src \in [1..NumLines -> TaggedLines \cup {SRC_inline}] :
        \A n \in 1..NumLines :
            /\ n \in ParameterLines(t) => src[n] \in {SRC_code, SRC_inline}
            /\ n \in DeclarationLines(t) \ ParameterLines(t) => src[n] = SRC_code
            /\ n \notin DeclarationLines(t) => src[n] \in TaggedLines}

InitTagged ==
    /\ \E t \in Tables :
          /\ df_o = t[1]
          /\ df_p = t[2]
          /\ lines \in TaggedFiles(t)
    /\ pc = "extract_objects_and_parameters"
    /\ exc = ""
    /\ idx = 0
    /\ prevObjectLoc = <<0, 0>>
    /\ comment_start = 0
    /\ commentLines = <<>>
    /\ lines_raw = <<>>
    /\ called = ""
    /\ returned = NoReturn
    /\ sourceUnit = <<>>
    /\ item = 0
    /\ parameters = <<>>
    /\ NoDriver

SpecTagged == InitTagged /\ [][Next]_vars

\* the columns of an object row that flattening fills and association is
\* said to leave alone
FlattenedColumns(row) ==
    <<row.contract, row.type, row.object_name, row.line_numbers,
      row.inheritance, row.modifiers, row.values, row.visibility>>

\* C27: add_docstring_comments changes only the comment fields of an object:
\* whatever the comment text, the contract, type, object_name, line_numbers,
\* inheritance, modifiers, values and visibility of every object are after
\* the pass what they were before it
C27_OnlyCommentFieldsChange ==
    [][pc' = "add_docstring_comments"
          => \A k \in 1..Len(df_o) :
                FlattenedColumns(df_o'[k]) = FlattenedColumns(df_o[k])]_vars

\* add_inline_comments is about to handle the parameter at idx
AtParameter == pc = "add_inline_comments" /\ exc = "" /\ idx \in 1..Len(df_p)

\* C28: for a parameter on line n, 1 <= n <= number of source lines, the
\* window add_inline_comments hands to parse_parameter_comments is not empty
\* and ends with source line n, the parameter's declaration line; the window
\* is taken from min(previous parameter's line, n - 2), and when the
\* parameter has been handled the cursor is n
C28_InlineWindowEndsAtDeclaration ==
    [][(AtParameter /\ df_p[idx].line_number \in 1..Len(lines))
          => /\ commentLines' # <<>>
             /\ commentLines'[Len(commentLines')] = lines[df_p[idx].line_number]
             /\ exc' = "" => comment_start' = df_p[idx].line_number]_vars

\* the parameter at j was given a comment by add_inline_comments and the
\* object it was created under has the same comment
KeepsParentComment(j) ==
    /\ df_p[j].full_comment # <<>>
    /\ df_p[j].full_comment = df_o[df_p[j].parent].full_comment

\* C29: remove_duplicate_comments_in_parameters compares every parameter
\* with the object it was created under, also when another object of the
\* same name exists in the contract: when parse_contract_file is done no
\* parameter has a non-empty full_comment equal to its own parent's
C29_NoParentCommentKept ==
    (pc = "done" /\ exc = "") => \A j \in 1..Len(df_p) : ~KeepsParentComment(j)

\* the @param marker occurs in the text s
HasParamMarker(s) ==
    \E i \in 1..Len(s) :
        /\ i + Len(AT_PARAM) - 1 <= Len(s)
        /\ SubSeq(s, i, i + Len(AT_PARAM) - 1) = AT_PARAM

\* C30: when remove_duplicate_comments_in_parameters has handled a
\* parameter, its full_comment is empty if the full_comment of its parent
\* object contains the marker @param, whatever the parameter's own text is;
\* it is unchanged if the parent's full_comment has no @param and differs
\* from the parameter's
C30_OverSuppression ==
    [][(/\ pc = "remove_duplicate_comments_in_parameters"
        /\ pc' = "remove_duplicate_comments_in_parameters"
        /\ idx' = idx + 1)
          => /\ HasParamMarker(df_o[df_p[idx].parent].full_comment)
                   => df_p'[idx].full_comment = <<>>
             /\ (/\ ~HasParamMarker(df_o[df_p[idx].parent].full_comment)
                 /\ df_o[df_p[idx].parent].full_comment # df_p[idx].full_comment)
                   => df_p'[idx].full_comment = df_p[idx].full_comment]_vars

====
